---------------------------- MODULE Spec2Model ----------------------------
(***************************************************************************)
(* Model of the Dashboard session of the portfolio tracker                 *)
(* (src/pages/Dashboard.tsx): the remote store (accounts and transactions  *)
(* tables), the in-memory PortfolioData snapshot, the localStorage cache   *)
(* and the asynchronous handlers.  Every handler that awaits a remote call *)
(* is a task: it is started with the values its closure captured at the    *)
(* render it was invoked from, and each later step is the arrival of one   *)
(* remote response together with the synchronous code that follows it.     *)
(***************************************************************************)
EXTENDS Integers, Sequences, FiniteSets, TLC

\* ------------------------------------------------------------------ bounds

\* Handler invocations that reach the remote store in one session.
MaxOps == 2

\* --------------------------------------------------------------- constants

\* cash of the default account (fetchPortfolioData)
DefaultCash == 10000
DefaultName == "My First Account"

\* ----------------------------------------------------------------- options

\* `T | null`: the empty sequence is null, a one-element sequence a value.
None == <<>>
Some(x) == <<x>>
Get(o) == o[1]
\* a null account id (activeAccountId: string | null)
NoId == 0
\* no remote call has failed
NoFailure == ""

\* ------------------------------------------------------------------- types

\* tickers and dates a transaction form or an imported file can carry
TxTypes == {"BUY", "SELL", "DEPOSIT", "WITHDRAWAL"}

\* Account (types.ts): the owner is the one signed-in user of the session
Account(id, name, cash) == [id |-> id, name |-> name, cash |-> cash]

\* A row of the remote transactions table (column transaction_date).
Row(id, account_id, type, ticker, shares, price, d) ==
    [id |-> id, account_id |-> account_id, type |-> type, ticker |-> ticker,
     shares |-> shares, price |-> price, transaction_date |-> d]

\* Transaction (types.ts): the local shape, `date` mapped from transaction_date
Transaction(id, account_id, type, ticker, shares, price, d) ==
    [id |-> id, account_id |-> account_id, type |-> type, ticker |-> ticker,
     shares |-> shares, price |-> price, date |-> d]

\* { ...tx, date: tx.transaction_date, companyName: ... } of a fetched/inserted row
RowToTx(r) ==
    Transaction(r.id, r.account_id, r.type, r.ticker, r.shares, r.price,
                r.transaction_date)

\* PortfolioData (types.ts)
PortfolioData(accounts, transactions, activeAccountId) ==
    [accounts |-> accounts, transactions |-> transactions,
     activeAccountId |-> activeAccountId]

\* ------------------------------------------------------------------- state

VARIABLES
    rAccounts,      \* remote table accounts of the owner, in the order select returns
    rTxs,           \* remote table transactions of the owner, in the order returned
    nextAccId,      \* next id the store assigns to an account
    nextTxId,       \* next id the store assigns to a transaction
    portfolioData,  \* useState<PortfolioData | null>
    isLoading,      \* useState(true)
    deletingTransaction, \* useState<Transaction | null>
    editingTransaction,  \* useState<Transaction | null>
    deletingAccount,     \* useState<Account | null>
    importConfirmation,  \* useState<{message, data} | null>
    lsBlob,         \* localStorage 'portfolioManagerData'
    lsActive,       \* localStorage `activeAccountId_${user.id}`
    tasks,          \* handler invocations suspended at an await
    effectRan,      \* the load effect has run for the published user
    ops,            \* handler invocations started (bounded by MaxOps)
    failed,         \* history: the remote call that failed last since the last load
    origDelta,      \* history: the cash delta applied when a row was appended
    baseCash,       \* history: each account's cash before the rows of its ledger
    user,           \* useAuth().user: the owner signed in
    away,           \* what is kept for the owner not signed in: the rows with
                    \* that user_id and localStorage `activeAccountId_${that id}`
    blobOwner,      \* history: the owner in whose session lsBlob was written
    positions,      \* useState<Position[]>([])
    isMarketDataLoading, \* useState(true)
    isApiError,     \* useState(false)
    historicalPortfolioValue, \* useState<HistoricalDataPoint[]>([]): the
                    \* holdings (ticker, shares) whose prices are summed in it
    isHistoryLoading,    \* useState(true)
    fanouts,        \* Promise.all of quote or history requests awaited
    posDeps,        \* the activeTransactions the positions effect ran with last
    histDeps        \* the dependencies the history effect ran with last

remoteVars == <<rAccounts, rTxs, nextAccId, nextTxId>>
uiVars == <<deletingTransaction, editingTransaction, deletingAccount, importConfirmation>>
cacheVars == <<lsBlob, lsActive>>
histVars == <<failed, origDelta, baseCash>>
ownerVars == <<user, away>>
marketVars == <<positions, isMarketDataLoading, isApiError, historicalPortfolioValue,
                isHistoryLoading, fanouts, posDeps, histDeps>>
vars == <<rAccounts, rTxs, nextAccId, nextTxId, portfolioData, isLoading,
          deletingTransaction, editingTransaction, deletingAccount,
          importConfirmation, lsBlob, lsActive, tasks, effectRan, ops,
          failed, origDelta, baseCash, user, away, blobOwner,
          positions, isMarketDataLoading, isApiError, historicalPortfolioValue,
          isHistoryLoading, fanouts, posDeps, histDeps>>

\* ----------------------------------------------------------- seq utilities

Range(s) == {s[i] : i \in 1..Len(s)}

\* ids of a list of accounts / rows
Ids(s) == {s[i].id : i \in 1..Len(s)}

\* ------------------------------------------------------------ local storage

\* JSON.stringify(portfolioData): the text of the blob, as the document it
\* denotes; the transactions object is written as its list of entries.
JSONStringify(pd) ==
    [accounts |-> pd.accounts,
     entries |-> {<<k, pd.transactions[k]>> : k \in DOMAIN pd.transactions},
     activeAccountId |-> pd.activeAccountId]

\* JSON.parse of such a text
JSONParse(b) ==
    PortfolioData(b.accounts,
                  [k \in {e[1] : e \in b.entries} |->
                      (CHOOSE e \in b.entries : e[1] = k)[2]],
                  b.activeAccountId)

\* The cache effect, run after every change of portfolioData:
\*   localStorage.setItem('portfolioManagerData', JSON.stringify(portfolioData));
\*   if (user && portfolioData.activeAccountId) localStorage.setItem(`activeAccountId_...`)
MirroredBlob(pd) == Some(JSONStringify(pd))
\* the cache effect without its second setItem: the remembered id is left as it was
MirroredActive_Stale(pd, old) == old

MirroredActive(pd, old) == IF pd.activeAccountId # NoId THEN pd.activeAccountId ELSE old

\* setPortfolioData(pd) followed by the cache effect
SetPortfolioData(pd) ==
    /\ portfolioData' = Some(pd)
    /\ lsBlob' = MirroredBlob(pd)
    /\ lsActive' = MirroredActive(pd, lsActive)
    /\ blobOwner' = Some(user)

KeepLocal == UNCHANGED <<portfolioData, lsBlob, lsActive, blobOwner>>

\* ------------------------------------------------------------------- tasks

\* A suspended handler invocation: its number, the handler, the await it is
\* suspended at, and what its closure captured.
Task(n, kind, pc) ==
    [n |-> n, kind |-> kind, pc |-> pc,
     acc |-> None,      \* activeAccount
     txs |-> <<>>,      \* activeTransactions
     tx |-> None,       \* the transaction the handler is about
     pd |-> None,       \* portfolioData
     accs |-> <<>>,     \* finalAccounts (load) / accounts still to import
     num |-> 0,         \* newCash / new account id
     name |-> "",       \* account name
     cashOk |-> FALSE,  \* the cash write of this invocation has succeeded
     data |-> None]     \* importConfirmation.data

\* the render guard: if (isLoading || !portfolioData) return <Loading/>
Ready == ~isLoading /\ portfolioData # None

\* activeAccount useMemo, of a snapshot
ActiveAccountOf(pd) ==
    IF \E i \in 1..Len(pd.accounts) : pd.accounts[i].id = pd.activeAccountId
    THEN Some(pd.accounts[CHOOSE i \in 1..Len(pd.accounts) :
                  /\ pd.accounts[i].id = pd.activeAccountId
                  /\ \A j \in 1..(i - 1) : pd.accounts[j].id # pd.activeAccountId])
    ELSE None

\* activeTransactions useMemo, of a snapshot
ActiveTransactionsOf(pd) ==
    IF ActiveAccountOf(pd) = None THEN <<>>
    ELSE IF Get(ActiveAccountOf(pd)).id \in DOMAIN pd.transactions
         THEN pd.transactions[Get(ActiveAccountOf(pd)).id]
         ELSE <<>>

\* -------------------------------------------------------------------- Init

\* What the owner's tables hold when the session starts: nothing (a new
\* owner), or two accounts, one bought position and a row left behind by an
\* account that no longer exists.
InitialStores ==
    { [accounts |-> <<>>, txs |-> <<>>],
      [accounts |-> <<Account(1, "Main", 100), Account(2, "IRA", 50)>>,
       txs |-> <<Row(1, 1, "BUY", "T1", 2, 3, 2), Row(2, 9, "BUY", "T1", 1, 1, 1)>>] }

\* Remembered active-account ids: none, or 2 (the second account of the
\* populated store; an account that no longer exists for the empty one).
InitialRemembered == {NoId, 2}

\* The owners that sign in on this browser; the one not signed in at the
\* start is a new owner.
Owners == {"A", "B"}
FirstOwner == "A"
OtherOwner(u) == CHOOSE o \in Owners : o # u

\* the rows and the remembered id kept for the owner who is not signed in
Kept(accounts, txs, remembered) ==
    [accounts |-> accounts, txs |-> txs, lsActive |-> remembered]

FirstNewAccId == 3
FirstNewTxId == 3

\* Signed cash effect of one ledger entry, as the cash invariant states it:
\* + deposits - withdrawals - BUY shares x price + SELL shares x price.
\* The amount of a DEPOSIT or WITHDRAWAL is its shares x price.
LedgerEffect(tx) ==
    CASE tx.type = "DEPOSIT" -> tx.shares * tx.price
      [] tx.type = "WITHDRAWAL" -> -(tx.shares * tx.price)
      [] tx.type = "BUY" -> -(tx.shares * tx.price)
      [] tx.type = "SELL" -> tx.shares * tx.price

RECURSIVE LedgerDelta(_)
LedgerDelta(txs) ==
    IF txs = <<>> THEN 0 ELSE LedgerEffect(Head(txs)) + LedgerDelta(Tail(txs))

\* the cash delta the handlers apply for a row at append
AppendDelta(type, shares, price) ==
    IF type = "SELL" THEN shares * price ELSE -(shares * price)

\* the market-data state of a Dashboard that has just mounted: the useState
\* initial values, no request issued, no effect run yet
Mounted ==
    /\ positions = <<>>
    /\ isMarketDataLoading = TRUE
    /\ isApiError = FALSE
    /\ historicalPortfolioValue = <<>>
    /\ isHistoryLoading = TRUE
    /\ fanouts = {}
    /\ posDeps = None
    /\ histDeps = None

\* the state at mount but for the cached blob
InitButBlob ==
    /\ \E st \in InitialStores :
          /\ rAccounts = st.accounts
          /\ rTxs = st.txs
          /\ origDelta = [id \in Ids(st.txs) |->
                 LET r == CHOOSE x \in Range(st.txs) : x.id = id
                 IN  AppendDelta(r.type, r.shares, r.price)]
          /\ baseCash = [id \in Ids(st.accounts) |->
                 LET a == CHOOSE x \in Range(st.accounts) : x.id = id
                 IN  a.cash - LedgerDelta(SelectSeq(st.txs, LAMBDA r : r.account_id = id))]
    /\ nextAccId = FirstNewAccId
    /\ nextTxId = FirstNewTxId
    /\ portfolioData = None
    /\ isLoading = TRUE
    /\ deletingTransaction = None
    /\ editingTransaction = None
    /\ deletingAccount = None
    /\ importConfirmation = None
    /\ lsActive \in InitialRemembered
    /\ tasks = {}
    /\ effectRan = FALSE
    /\ ops = 0
    /\ failed = NoFailure
    /\ user = FirstOwner
    /\ away = Kept(<<>>, <<>>, NoId)
    /\ blobOwner = None
    /\ Mounted

\* nothing is cached when the first session starts
Init == InitButBlob /\ lsBlob = None

\* --------------------------------------------------------- loadOfflineData

\* What a text under 'portfolioManagerData' can be, as loadOfflineData sees
\* it: whether JSON.parse accepts it, whether it parses to null, and of each
\* of the three fields the kind of JavaScript value it holds ("undefined": the
\* field is missing; "object": an object that is no array; "empty": '').
CachedText(parses, isNull, accounts, transactions, activeAccountId) ==
    [parses |-> parses, isNull |-> isNull, accounts |-> accounts,
     transactions |-> transactions, activeAccountId |-> activeAccountId]

CachedTexts ==
    { CachedText(FALSE, FALSE, "undefined", "undefined", "undefined"),
      CachedText(TRUE, TRUE, "undefined", "undefined", "undefined") }
    \cup { CachedText(TRUE, FALSE, a, t, i) :
              a \in {"array", "object", "null", "undefined"},
              t \in {"object", "null", "string", "undefined"},
              i \in {"string", "empty", "null", "undefined"} }

\* Array.isArray(v)
IsArray(v) == v = "array"

\* typeof v === 'object'
TypeofObject(v) == v \in {"object", "array", "null"}

\* v in a condition
Truthy(v) == v \in {"object", "array", "string"}

\* parsedData && Array.isArray(parsedData.accounts)
\*   && typeof parsedData.transactions === 'object' && parsedData.activeAccountId
OfflineValid(parsedData) ==
    /\ ~parsedData.isNull
    /\ IsArray(parsedData.accounts)
    /\ TypeofObject(parsedData.transactions)
    /\ Truthy(parsedData.activeAccountId)

\* loadOfflineData, with the cache effect that follows an adoption (it writes
\* back the text of the value just parsed).  No text: nothing is set.  A text
\* JSON.parse rejects, or one the validation rejects: the throw is caught and
\* the snapshot set to null.  finally: setIsLoading(false).
LoadOfflineData ==
    /\ isLoading
    /\ isLoading' = FALSE
    /\ IF lsBlob # None /\ Get(lsBlob).parses /\ OfflineValid(Get(lsBlob))
       THEN /\ portfolioData' = lsBlob
            /\ blobOwner' = Some(user)
            /\ UNCHANGED <<lsBlob, lsActive>>
       ELSE /\ portfolioData' = IF lsBlob = None THEN portfolioData ELSE None
            /\ UNCHANGED <<lsBlob, lsActive, blobOwner>>
    /\ UNCHANGED <<remoteVars, uiVars, tasks, effectRan, ops, failed, origDelta,
                   baseCash, ownerVars, marketVars>>

\* ------------------------------------------------------ fetchPortfolioData

Replace(t, u) == (tasks \ {t}) \cup {u}

\* history: an account the store has just created starts from its own cash
WithBase(acc) == [id \in (DOMAIN baseCash) \cup {acc.id} |->
                    IF id = acc.id THEN acc.cash ELSE baseCash[id]]

\* the grouping without the hasOwnProperty test: a row whose account was not
\* fetched gets a list of its own
GroupByAccount_KeepOrphans(accounts, rows) ==
    [k \in Ids(accounts) \cup {rows[i].account_id : i \in 1..Len(rows)} |->
        LET mine == SelectSeq(rows, LAMBDA r : r.account_id = k)
        IN  [i \in 1..Len(mine) |-> RowToTx(mine[i])]]

\* transactionsByAccount: an empty list per fetched account, then every
\* fetched row pushed under its account_id if that is a key
GroupByAccount(accounts, rows) ==
    [k \in Ids(accounts) |->
        LET mine == SelectSeq(rows, LAMBDA r : r.account_id = k)
        IN  [i \in 1..Len(mine) |-> RowToTx(mine[i])]]

\* activeId without the look-up of the remembered id
ResolveActiveId_First(accounts, lastActiveId) == accounts[1].id

\* activeId: the remembered id if some fetched account has it, else the first's
ResolveActiveId(accounts, lastActiveId) ==
    IF \E i \in 1..Len(accounts) : accounts[i].id = lastActiveId
    THEN lastActiveId
    ELSE accounts[1].id

\* useEffect(() => { if (user) fetchPortfolioData() }, [user, fetchPortfolioData]):
\* fetchPortfolioData up to its first await
LoadEffect ==
    /\ ~effectRan
    /\ effectRan' = TRUE
    /\ isLoading' = TRUE
    /\ tasks' = tasks \cup {Task(0, "load", "accounts")}
    /\ KeepLocal
    /\ UNCHANGED <<remoteVars, uiVars, ops, failed, origDelta, baseCash, ownerVars, marketVars>>

\* a load gives up without setIsLoading(false)
LoadAbort_KeepsLoading(t) ==
    /\ tasks' = tasks \ {t}
    /\ failed' = t.pc
    /\ KeepLocal
    /\ UNCHANGED <<remoteVars, uiVars, isLoading, effectRan, ops, origDelta, baseCash, ownerVars, marketVars>>

\* a load gives up: console.error; setIsLoading(false); return
LoadAbort(t) ==
    /\ isLoading' = FALSE
    /\ tasks' = tasks \ {t}
    /\ failed' = t.pc
    /\ KeepLocal
    /\ UNCHANGED <<remoteVars, uiVars, effectRan, ops, origDelta, baseCash, ownerVars, marketVars>>

\* the answer to select('*') from accounts
LoadAccounts(t) ==
    /\ t.kind = "load" /\ t.pc = "accounts"
    /\ \/ LoadAbort(t)
       \/ /\ tasks' = Replace(t, [t EXCEPT !.accs = rAccounts,
                 !.pc = IF Len(rAccounts) = 0 THEN "create" ELSE "txs"])
          /\ KeepLocal
          /\ UNCHANGED <<remoteVars, uiVars, isLoading, effectRan, ops, failed, origDelta, baseCash, ownerVars, marketVars>>

\* the default account inserted with cash: 0, as handleAddAccount inserts
LoadCreateDefault_ZeroCash(t) ==
    /\ t.kind = "load" /\ t.pc = "create"
    /\ \/ LoadAbort(t)
       \/ LET newAccountData == Account(nextAccId, DefaultName, 0)
          IN  /\ rAccounts' = Append(rAccounts, newAccountData)
              /\ nextAccId' = nextAccId + 1
              /\ baseCash' = WithBase(newAccountData)
              /\ tasks' = Replace(t, [t EXCEPT !.accs = <<newAccountData>>, !.pc = "txs"])
              /\ KeepLocal
              /\ UNCHANGED <<rTxs, nextTxId, uiVars, isLoading, effectRan, ops,
                             failed, origDelta, ownerVars, marketVars>>

\* the answer to the insert of the default account
LoadCreateDefault(t) ==
    /\ t.kind = "load" /\ t.pc = "create"
    /\ \/ LoadAbort(t)
       \/ LET newAccountData == Account(nextAccId, DefaultName, DefaultCash)
          IN  /\ rAccounts' = Append(rAccounts, newAccountData)
              /\ nextAccId' = nextAccId + 1
              /\ baseCash' = WithBase(newAccountData)
              /\ tasks' = Replace(t, [t EXCEPT !.accs = <<newAccountData>>, !.pc = "txs"])
              /\ KeepLocal
              /\ UNCHANGED <<rTxs, nextTxId, uiVars, isLoading, effectRan, ops,
                             failed, origDelta, ownerVars, marketVars>>

\* the answer to select('*') from transactions, and the publication
LoadTransactions(t) ==
    /\ t.kind = "load" /\ t.pc = "txs"
    /\ \/ LoadAbort(t)
       \/ /\ SetPortfolioData(PortfolioData(t.accs, GroupByAccount(t.accs, rTxs),
                                            ResolveActiveId(t.accs, lsActive)))
          /\ isLoading' = FALSE
          /\ tasks' = tasks \ {t}
          /\ failed' = NoFailure
          /\ UNCHANGED <<remoteVars, uiVars, effectRan, ops, origDelta, baseCash, ownerVars, marketVars>>

\* ------------------------------------------------------- handler plumbing

\* a handler may be invoked: the dashboard is rendered and the session's
\* budget of invocations is not used up
CanStart == Ready /\ ops < MaxOps

\* a handler returns at a failed remote call:
\*   if (error) return console.error(...)
HandlerAbort(t, ev) ==
    /\ tasks' = tasks \ {t}
    /\ failed' = ev
    /\ KeepLocal
    /\ UNCHANGED <<remoteVars, uiVars, isLoading, effectRan, ops, origDelta, baseCash, ownerVars, marketVars>>

\* update({ cash }).eq('id', id) on the remote accounts table
RemoteSetCash(accounts, id, cash) ==
    [i \in 1..Len(accounts) |->
        IF accounts[i].id = id THEN [accounts[i] EXCEPT !.cash = cash] ELSE accounts[i]]

\* prev.accounts.map(acc => acc.id === updatedAccount.id ? updatedAccount : acc)
ReplaceAccount(accounts, updatedAccount) ==
    [i \in 1..Len(accounts) |->
        IF accounts[i].id = updatedAccount.id THEN updatedAccount ELSE accounts[i]]

\* { ...prev.transactions, [id]: list }
WithEntry(transactions, id, list) ==
    [k \in (DOMAIN transactions) \cup {id} |->
        IF k = id THEN list ELSE transactions[k]]

\* prev.transactions[id] || []
EntryOrEmpty(transactions, id) ==
    IF id \in DOMAIN transactions THEN transactions[id] ELSE <<>>

\* ---------------------------------------------------- handleAddTransaction

\* What the add form submits (Omit<Transaction, 'id' | 'user_id' | 'account_id'>).
NewTransactions ==
    { Transaction(NoId, NoId, "BUY", "T1", 1, 4, 3),
      Transaction(NoId, NoId, "SELL", "T1", 1, 7, 1),
      Transaction(NoId, NoId, "DEPOSIT", "", 1, 5, 3),
      Transaction(NoId, NoId, "WITHDRAWAL", "", 1, 2, 3) }

\* newCash of handleAddTransaction
AddNewCash(cash, tx) ==
    cash + (IF tx.type = "SELL" THEN tx.shares * tx.price
                                ELSE -(tx.shares * tx.price))

\* up to the first await: the guard, newCash, the cash update is sent
AddTransactionStart(newTransaction) ==
    /\ CanStart
    /\ ActiveAccountOf(Get(portfolioData)) # None
    /\ LET activeAccount == Get(ActiveAccountOf(Get(portfolioData)))
       IN  tasks' = tasks \cup
              {[Task(ops + 1, "addTx", "cash") EXCEPT
                  !.acc = Some(activeAccount),
                  !.tx = Some(newTransaction),
                  !.num = AddNewCash(activeAccount.cash, newTransaction)]}
    /\ ops' = ops + 1
    /\ KeepLocal
    /\ UNCHANGED <<remoteVars, uiVars, isLoading, effectRan, failed, origDelta, baseCash, ownerVars, marketVars>>

\* the append without the return at accountUpdateError: the insert is sent
\* whether or not the cash write succeeded
AddTransactionCash_NoFailFast(t) ==
    /\ t.kind = "addTx" /\ t.pc = "cash"
    /\ \/ /\ tasks' = Replace(t, [t EXCEPT !.pc = "row"])
          /\ failed' = "cashFail"
          /\ KeepLocal
          /\ UNCHANGED <<remoteVars, uiVars, isLoading, effectRan, ops, origDelta, baseCash, ownerVars, marketVars>>
       \/ /\ rAccounts' = RemoteSetCash(rAccounts, Get(t.acc).id, t.num)
          /\ tasks' = Replace(t, [t EXCEPT !.pc = "row", !.cashOk = TRUE])
          /\ KeepLocal
          /\ UNCHANGED <<rTxs, nextAccId, nextTxId, uiVars, isLoading, effectRan,
                         ops, failed, origDelta, baseCash, ownerVars, marketVars>>

\* the answer to the cash update; on success the insert is sent
AddTransactionCash(t) ==
    /\ t.kind = "addTx" /\ t.pc = "cash"
    /\ \/ HandlerAbort(t, "cashFail")
       \/ /\ rAccounts' = RemoteSetCash(rAccounts, Get(t.acc).id, t.num)
          /\ tasks' = Replace(t, [t EXCEPT !.pc = "row", !.cashOk = TRUE])
          /\ KeepLocal
          /\ UNCHANGED <<rTxs, nextAccId, nextTxId, uiVars, isLoading, effectRan,
                         ops, failed, origDelta, baseCash, ownerVars, marketVars>>

\* setPortfolioData(prev => ...) of handleAddTransaction
AddTransactionLocal(prev, activeAccount, newCash, addedTx) ==
    PortfolioData(
        ReplaceAccount(prev.accounts, [activeAccount EXCEPT !.cash = newCash]),
        WithEntry(prev.transactions, activeAccount.id,
                  Append(EntryOrEmpty(prev.transactions, activeAccount.id), addedTx)),
        prev.activeAccountId)

\* the append that, when the insert fails, still takes the cash it has
\* already written remotely into the snapshot
AddTransactionInsert_SyncCashOnFail(t) ==
    /\ t.kind = "addTx" /\ t.pc = "row"
    /\ \/ /\ SetPortfolioData([Get(portfolioData) EXCEPT !.accounts =
                 ReplaceAccount(@, [Get(t.acc) EXCEPT !.cash = t.num])])
          /\ tasks' = tasks \ {t}
          /\ failed' = "rowFail"
          /\ UNCHANGED <<remoteVars, uiVars, isLoading, effectRan, ops, origDelta,
                         baseCash, ownerVars, marketVars>>
       \/ LET nt == Get(t.tx)
              insertedTx == Row(nextTxId, Get(t.acc).id, nt.type, nt.ticker,
                                nt.shares, nt.price, nt.date)
          IN  /\ rTxs' = Append(rTxs, insertedTx)
              /\ nextTxId' = nextTxId + 1
              /\ SetPortfolioData(AddTransactionLocal(Get(portfolioData), Get(t.acc),
                                                      t.num, RowToTx(insertedTx)))
              /\ tasks' = tasks \ {t}
              /\ origDelta' = [id \in (DOMAIN origDelta) \cup {insertedTx.id} |->
                                 IF id = insertedTx.id THEN t.num - Get(t.acc).cash
                                 ELSE origDelta[id]]
              /\ UNCHANGED <<rAccounts, nextAccId, uiVars, isLoading, effectRan,
                             ops, failed, baseCash, ownerVars, marketVars>>

\* the append that, when the insert fails, writes the old cash back
AddTransactionInsert_Compensates(t) ==
    /\ t.kind = "addTx" /\ t.pc = "row"
    /\ \/ /\ rAccounts' = RemoteSetCash(rAccounts, Get(t.acc).id, Get(t.acc).cash)
          /\ tasks' = tasks \ {t}
          /\ failed' = "rowFail"
          /\ KeepLocal
          /\ UNCHANGED <<rTxs, nextAccId, nextTxId, uiVars, isLoading, effectRan, ops,
                         origDelta, baseCash, ownerVars, marketVars>>
       \/ LET nt == Get(t.tx)
              insertedTx == Row(nextTxId, Get(t.acc).id, nt.type, nt.ticker,
                                nt.shares, nt.price, nt.date)
          IN  /\ rTxs' = Append(rTxs, insertedTx)
              /\ nextTxId' = nextTxId + 1
              /\ SetPortfolioData(AddTransactionLocal(Get(portfolioData), Get(t.acc),
                                                      t.num, RowToTx(insertedTx)))
              /\ tasks' = tasks \ {t}
              /\ origDelta' = [id \in (DOMAIN origDelta) \cup {insertedTx.id} |->
                                 IF id = insertedTx.id THEN t.num - Get(t.acc).cash
                                 ELSE origDelta[id]]
              /\ UNCHANGED <<rAccounts, nextAccId, uiVars, isLoading, effectRan,
                             ops, failed, baseCash, ownerVars, marketVars>>

\* the answer to the insert; on success the snapshot is updated
AddTransactionInsert(t) ==
    /\ t.kind = "addTx" /\ t.pc = "row"
    /\ \/ HandlerAbort(t, "rowFail")
       \/ LET nt == Get(t.tx)
              insertedTx == Row(nextTxId, Get(t.acc).id, nt.type, nt.ticker,
                                nt.shares, nt.price, nt.date)
          IN  /\ rTxs' = Append(rTxs, insertedTx)
              /\ nextTxId' = nextTxId + 1
              /\ SetPortfolioData(AddTransactionLocal(Get(portfolioData), Get(t.acc),
                                                      t.num, RowToTx(insertedTx)))
              /\ tasks' = tasks \ {t}
              /\ origDelta' = [id \in (DOMAIN origDelta) \cup {insertedTx.id} |->
                                 IF id = insertedTx.id THEN t.num - Get(t.acc).cash
                                 ELSE origDelta[id]]
              /\ UNCHANGED <<rAccounts, nextAccId, uiVars, isLoading, effectRan,
                             ops, failed, baseCash, ownerVars, marketVars>>

\* ------------------------------------------------- handleDeleteTransaction

\* TransactionHistoryTable onDelete={(tx) => setDeletingTransaction(tx)}
SelectDeleteTransaction ==
    /\ Ready /\ ops < MaxOps
    /\ \E tx \in Range(ActiveTransactionsOf(Get(portfolioData))) :
          /\ deletingTransaction # Some(tx)
          /\ deletingTransaction' = Some(tx)
    /\ KeepLocal
    /\ UNCHANGED <<remoteVars, editingTransaction, deletingAccount, importConfirmation,
                   isLoading, tasks, effectRan, ops, failed, origDelta, baseCash, ownerVars, marketVars>>

\* ConfirmationModal onClose={() => setDeletingTransaction(null)}
CancelDeleteTransaction ==
    /\ Ready
    /\ deletingTransaction # None
    /\ deletingTransaction' = None
    /\ KeepLocal
    /\ UNCHANGED <<remoteVars, editingTransaction, deletingAccount, importConfirmation,
                   isLoading, tasks, effectRan, ops, failed, origDelta, baseCash, ownerVars, marketVars>>

\* newCash of handleDeleteTransaction
DeleteNewCash(cash, tx) ==
    cash + (IF tx.type = "BUY" THEN tx.shares * tx.price
                               ELSE -(tx.shares * tx.price))

\* up to the first await
DeleteTransactionStart ==
    /\ CanStart
    /\ deletingTransaction # None
    /\ ActiveAccountOf(Get(portfolioData)) # None
    /\ LET activeAccount == Get(ActiveAccountOf(Get(portfolioData)))
       IN  tasks' = tasks \cup
              {[Task(ops + 1, "delTx", "cash") EXCEPT
                  !.acc = Some(activeAccount),
                  !.txs = ActiveTransactionsOf(Get(portfolioData)),
                  !.tx = deletingTransaction,
                  !.num = DeleteNewCash(activeAccount.cash, Get(deletingTransaction))]}
    /\ ops' = ops + 1
    /\ KeepLocal
    /\ UNCHANGED <<remoteVars, uiVars, isLoading, effectRan, failed, origDelta, baseCash, ownerVars, marketVars>>

\* the answer to the cash update; on success the row delete is sent
DeleteTransactionCash(t) ==
    /\ t.kind = "delTx" /\ t.pc = "cash"
    /\ \/ HandlerAbort(t, "cashFail")
       \/ /\ rAccounts' = RemoteSetCash(rAccounts, Get(t.acc).id, t.num)
          /\ tasks' = Replace(t, [t EXCEPT !.pc = "row", !.cashOk = TRUE])
          /\ KeepLocal
          /\ UNCHANGED <<rTxs, nextAccId, nextTxId, uiVars, isLoading, effectRan,
                         ops, failed, origDelta, baseCash, ownerVars, marketVars>>

\* setPortfolioData(prev => ...) of handleDeleteTransaction
DeleteTransactionLocal(prev, activeAccount, newCash, activeTransactions, id) ==
    PortfolioData(
        ReplaceAccount(prev.accounts, [activeAccount EXCEPT !.cash = newCash]),
        WithEntry(prev.transactions, activeAccount.id,
                  SelectSeq(activeTransactions, LAMBDA tx : tx.id # id)),
        prev.activeAccountId)

\* the answer to the row delete; on success the snapshot is updated
DeleteTransactionRow(t) ==
    /\ t.kind = "delTx" /\ t.pc = "row"
    /\ \/ HandlerAbort(t, "rowFail")
       \/ /\ rTxs' = SelectSeq(rTxs, LAMBDA r : r.id # Get(t.tx).id)
          /\ SetPortfolioData(DeleteTransactionLocal(Get(portfolioData), Get(t.acc),
                                                     t.num, t.txs, Get(t.tx).id))
          /\ deletingTransaction' = None
          /\ tasks' = tasks \ {t}
          /\ UNCHANGED <<rAccounts, nextAccId, nextTxId, editingTransaction,
                         deletingAccount, importConfirmation, isLoading, effectRan,
                         ops, failed, origDelta, baseCash, ownerVars, marketVars>>

\* ------------------------------------------------- handleUpdateTransaction

\* TransactionHistoryTable onEdit={(tx) => setEditingTransaction(tx)}
SelectEditTransaction ==
    /\ Ready /\ ops < MaxOps
    /\ \E tx \in Range(ActiveTransactionsOf(Get(portfolioData))) :
          /\ editingTransaction # Some(tx)
          /\ editingTransaction' = Some(tx)
    /\ KeepLocal
    /\ UNCHANGED <<remoteVars, deletingTransaction, deletingAccount, importConfirmation,
                   isLoading, tasks, effectRan, ops, failed, origDelta, baseCash, ownerVars, marketVars>>

\* EditTransactionModal onClose={() => setEditingTransaction(null)}
CancelEditTransaction ==
    /\ Ready
    /\ editingTransaction # None
    /\ editingTransaction' = None
    /\ KeepLocal
    /\ UNCHANGED <<remoteVars, deletingTransaction, deletingAccount, importConfirmation,
                   isLoading, tasks, effectRan, ops, failed, origDelta, baseCash, ownerVars, marketVars>>

\* What the edit form saves: the edited transaction with new shares, price, date.
EditedFields == { [shares |-> 1, price |-> 2, date |-> 1] }

\* update({shares, price, transaction_date, notes}).eq('id', updatedTx.id)
RemoteUpdateTransaction(rows, updatedTx) ==
    [i \in 1..Len(rows) |->
        IF rows[i].id = updatedTx.id
        THEN [rows[i] EXCEPT !.shares = updatedTx.shares, !.price = updatedTx.price,
                             !.transaction_date = updatedTx.date]
        ELSE rows[i]]

\* activeTransactions.map(tx => tx.id === updatedTx.id ? updatedTx : tx)
ReplaceTransaction(activeTransactions, updatedTx) ==
    [i \in 1..Len(activeTransactions) |->
        IF activeTransactions[i].id = updatedTx.id THEN updatedTx
        ELSE activeTransactions[i]]

\* EditTransactionModal onSave: handleUpdateTransaction up to its await
UpdateTransactionStart(f) ==
    /\ CanStart
    /\ editingTransaction # None
    /\ ActiveAccountOf(Get(portfolioData)) # None
    /\ tasks' = tasks \cup
          {[Task(ops + 1, "updTx", "row") EXCEPT
              !.acc = ActiveAccountOf(Get(portfolioData)),
              !.txs = ActiveTransactionsOf(Get(portfolioData)),
              !.tx = Some([Get(editingTransaction) EXCEPT
                              !.shares = f.shares, !.price = f.price, !.date = f.date])]}
    /\ ops' = ops + 1
    /\ KeepLocal
    /\ UNCHANGED <<remoteVars, uiVars, isLoading, effectRan, failed, origDelta, baseCash, ownerVars, marketVars>>

\* setPortfolioData(prev => ...) of handleUpdateTransaction
UpdateTransactionLocal(prev, activeAccount, activeTransactions, updatedTx) ==
    PortfolioData(prev.accounts,
                  WithEntry(prev.transactions, activeAccount.id,
                            ReplaceTransaction(activeTransactions, updatedTx)),
                  prev.activeAccountId)

\* the answer to the row update
UpdateTransactionRow(t) ==
    /\ t.kind = "updTx" /\ t.pc = "row"
    /\ \/ HandlerAbort(t, "updFail")
       \/ /\ rTxs' = RemoteUpdateTransaction(rTxs, Get(t.tx))
          /\ SetPortfolioData(UpdateTransactionLocal(Get(portfolioData), Get(t.acc),
                                                     t.txs, Get(t.tx)))
          /\ editingTransaction' = None
          /\ tasks' = tasks \ {t}
          /\ UNCHANGED <<rAccounts, nextAccId, nextTxId, deletingTransaction,
                         deletingAccount, importConfirmation, isLoading, effectRan,
                         ops, failed, origDelta, baseCash, ownerVars, marketVars>>

\* -------------------------------------------------------- handleUpdateCash

\* What the cash editor of PortfolioSummary submits.
CashEdits == {77}

\* up to the await
UpdateCashStart(newCash) ==
    /\ CanStart
    /\ ActiveAccountOf(Get(portfolioData)) # None
    /\ tasks' = tasks \cup
          {[Task(ops + 1, "cash", "cash") EXCEPT
              !.acc = ActiveAccountOf(Get(portfolioData)), !.num = newCash]}
    /\ ops' = ops + 1
    /\ KeepLocal
    /\ UNCHANGED <<remoteVars, uiVars, isLoading, effectRan, failed, origDelta, baseCash, ownerVars, marketVars>>

\* setPortfolioData(prev => ...) of handleUpdateCash
UpdateCashLocal(prev, activeAccount, newCash) ==
    PortfolioData(ReplaceAccount(prev.accounts, [activeAccount EXCEPT !.cash = newCash]),
                  prev.transactions, prev.activeAccountId)

\* the answer to the cash update
UpdateCashDone(t) ==
    /\ t.kind = "cash" /\ t.pc = "cash"
    /\ \/ HandlerAbort(t, "editFail")
       \/ /\ rAccounts' = RemoteSetCash(rAccounts, Get(t.acc).id, t.num)
          /\ SetPortfolioData(UpdateCashLocal(Get(portfolioData), Get(t.acc), t.num))
          /\ tasks' = tasks \ {t}
          /\ UNCHANGED <<rTxs, nextAccId, nextTxId, uiVars, isLoading, effectRan,
                         ops, failed, origDelta, baseCash, ownerVars, marketVars>>

\* ----------------------------------------------------- handleSwitchAccount

\* Header onSwitchAccount: setPortfolioData(prev => ({...prev, activeAccountId}))
SwitchAccount ==
    /\ Ready
    /\ \E id \in Ids(Get(portfolioData).accounts) :
          /\ id # Get(portfolioData).activeAccountId
          /\ SetPortfolioData([Get(portfolioData) EXCEPT !.activeAccountId = id])
    /\ UNCHANGED <<remoteVars, uiVars, isLoading, tasks, effectRan, ops, failed,
                   origDelta, baseCash, ownerVars, marketVars>>

\* -------------------------------------------------------- handleAddAccount

\* Names typed into ManageAccountsModal.
NewAccountNames == {"New"}
RenamedTo == {"Renamed"}

\* up to the await: insert({ user_id, name, cash: 0 })
AddAccountStart(name) ==
    /\ CanStart
    /\ tasks' = tasks \cup {[Task(ops + 1, "addAcc", "row") EXCEPT !.name = name]}
    /\ ops' = ops + 1
    /\ KeepLocal
    /\ UNCHANGED <<remoteVars, uiVars, isLoading, effectRan, failed, origDelta, baseCash, ownerVars, marketVars>>

\* setPortfolioData(prev => ...) of handleAddAccount
AddAccountLocal(prev, newAccount) ==
    PortfolioData(Append(prev.accounts, newAccount),
                  WithEntry(prev.transactions, newAccount.id, <<>>),
                  newAccount.id)

\* the answer to the insert
AddAccountDone(t) ==
    /\ t.kind = "addAcc" /\ t.pc = "row"
    /\ \/ HandlerAbort(t, "addAccFail")
       \/ LET newAccount == Account(nextAccId, t.name, 0)
          IN  /\ rAccounts' = Append(rAccounts, newAccount)
              /\ nextAccId' = nextAccId + 1
              /\ baseCash' = WithBase(newAccount)
              /\ SetPortfolioData(AddAccountLocal(Get(portfolioData), newAccount))
              /\ tasks' = tasks \ {t}
              /\ UNCHANGED <<rTxs, nextTxId, uiVars, isLoading, effectRan, ops,
                             failed, origDelta, ownerVars, marketVars>>

\* ----------------------------------------------------- handleUpdateAccount

\* up to the await: update({ name }).eq('id', id)
UpdateAccountStart(id, name) ==
    /\ CanStart
    /\ id \in Ids(Get(portfolioData).accounts)
    /\ tasks' = tasks \cup
          {[Task(ops + 1, "renAcc", "row") EXCEPT !.num = id, !.name = name]}
    /\ ops' = ops + 1
    /\ KeepLocal
    /\ UNCHANGED <<remoteVars, uiVars, isLoading, effectRan, failed, origDelta, baseCash, ownerVars, marketVars>>

\* accounts.map(acc => acc.id === id ? { ...acc, name } : acc), remote and local
RenameAccount(accounts, id, name) ==
    [i \in 1..Len(accounts) |->
        IF accounts[i].id = id THEN [accounts[i] EXCEPT !.name = name] ELSE accounts[i]]

\* the answer to the update
UpdateAccountDone(t) ==
    /\ t.kind = "renAcc" /\ t.pc = "row"
    /\ \/ HandlerAbort(t, "renFail")
       \/ /\ rAccounts' = RenameAccount(rAccounts, t.num, t.name)
          /\ SetPortfolioData([Get(portfolioData) EXCEPT
                 !.accounts = RenameAccount(@, t.num, t.name)])
          /\ tasks' = tasks \ {t}
          /\ UNCHANGED <<rTxs, nextAccId, nextTxId, uiVars, isLoading, effectRan,
                         ops, failed, origDelta, baseCash, ownerVars, marketVars>>

\* ----------------------------------------------------- handleDeleteAccount

\* ManageAccountsModal onDelete={(acc) => setDeletingAccount(acc)}
SelectDeleteAccount ==
    /\ Ready /\ ops < MaxOps
    /\ \E acc \in Range(Get(portfolioData).accounts) :
          /\ deletingAccount # Some(acc)
          /\ deletingAccount' = Some(acc)
    /\ KeepLocal
    /\ UNCHANGED <<remoteVars, deletingTransaction, editingTransaction,
                   importConfirmation, isLoading, tasks, effectRan, ops, failed,
                   origDelta, baseCash, ownerVars, marketVars>>

\* ConfirmationModal onClose={() => setDeletingAccount(null)}
CancelDeleteAccount ==
    /\ Ready
    /\ deletingAccount # None
    /\ deletingAccount' = None
    /\ KeepLocal
    /\ UNCHANGED <<remoteVars, deletingTransaction, editingTransaction,
                   importConfirmation, isLoading, tasks, effectRan, ops, failed,
                   origDelta, baseCash, ownerVars, marketVars>>

\* the guard of handleDeleteAccount
DeleteAccountGuard(da, pd) ==
    da # None /\ pd # None /\ ~(Len(Get(pd).accounts) <= 1)

\* up to the await: delete().eq('id', deletingAccount.id)
DeleteAccountStart ==
    /\ CanStart
    /\ DeleteAccountGuard(deletingAccount, portfolioData)
    /\ tasks' = tasks \cup
          {[Task(ops + 1, "delAcc", "row") EXCEPT
              !.acc = deletingAccount, !.pd = portfolioData]}
    /\ ops' = ops + 1
    /\ KeepLocal
    /\ UNCHANGED <<remoteVars, uiVars, isLoading, effectRan, failed, origDelta, baseCash, ownerVars, marketVars>>

\* the snapshot without newActiveId: the active id is kept even when it is
\* the deleted account's
DeleteAccountLocal_KeepActive(pd, da) ==
    PortfolioData(SelectSeq(pd.accounts, LAMBDA acc : acc.id # da.id),
                  [k \in (DOMAIN pd.transactions) \ {da.id} |-> pd.transactions[k]],
                  pd.activeAccountId)

\* the snapshot handleDeleteAccount sets, from the portfolioData of its closure
DeleteAccountLocal(pd, da) ==
    LET newAccounts == SelectSeq(pd.accounts, LAMBDA acc : acc.id # da.id)
    IN  PortfolioData(newAccounts,
                      [k \in (DOMAIN pd.transactions) \ {da.id} |-> pd.transactions[k]],
                      IF da.id = pd.activeAccountId THEN newAccounts[1].id
                      ELSE pd.activeAccountId)

\* What the store does to the transactions table when an account row is
\* deleted.  The handler deletes the account row only; the tables are defined
\* outside this source, and the specification says the deletion cascades to
\* the account's transactions.
CascadeDelete(rows, id) == SelectSeq(rows, LAMBDA r : r.account_id # id)

\* the answer to the delete
DeleteAccountDone(t) ==
    /\ t.kind = "delAcc" /\ t.pc = "row"
    /\ \/ HandlerAbort(t, "delAccFail")
       \/ /\ rAccounts' = SelectSeq(rAccounts, LAMBDA a : a.id # Get(t.acc).id)
          /\ rTxs' = CascadeDelete(rTxs, Get(t.acc).id)
          /\ SetPortfolioData(DeleteAccountLocal(Get(t.pd), Get(t.acc)))
          /\ deletingAccount' = None
          /\ tasks' = tasks \ {t}
          /\ UNCHANGED <<nextAccId, nextTxId, deletingTransaction, editingTransaction,
                         importConfirmation, isLoading, effectRan, ops, failed,
                         origDelta, baseCash, ownerVars, marketVars>>

\* ------------------------------------------ handleImport, handleConfirmImport

\* What parseImportedFile can return (the `data` both handlers inspect):
\* isArray is Array.isArray(data) with the items in list; account is
\* data.account ('account' in data) with data.transactions in txlist; accounts
\* is data.accounts when it is an array, with data.transactions in txmap.
ImportData(isArray, list, account, txlist, accounts, txmap) ==
    [isArray |-> isArray, list |-> list, account |-> account, txlist |-> txlist,
     accounts |-> accounts, txmap |-> txmap]

ImportedTx == Transaction(8, 1, "BUY", "T2", 2, 2, 1)

\* A bare list; a single-account backup; a full backup whose first account
\* carries the id of an account of the populated store.
ImportPayloads ==
    { ImportData(TRUE, <<ImportedTx>>, None, <<>>, None, <<>>),
      ImportData(FALSE, <<>>, Some([name |-> "Imp", cash |-> 20]), <<ImportedTx>>,
                 None, <<>>),
      ImportData(FALSE, <<>>, None, <<>>,
                 Some(<<Account(1, "Main", 100), Account(7, "Old", 30)>>),
                 [k \in {1} |-> <<ImportedTx>>]) }

RECURSIVE TotalLen(_, _)
\* Object.values(data.transactions).flat().length
TotalLen(txmap, keys) ==
    IF keys = {} THEN 0
    ELSE LET k == CHOOSE x \in keys : TRUE
         IN  Len(txmap[k]) + TotalLen(txmap, keys \ {k})

\* the summary handleImport builds: the shape it found and its counts
ImportMessage(data) ==
    IF data.isArray THEN <<"list", Len(data.list), 0>>
    ELSE IF data.account # None THEN <<"account", 1, Len(data.txlist)>>
    ELSE <<"full", Len(Get(data.accounts)), TotalLen(data.txmap, DOMAIN data.txmap)>>

\* handleImport that starts the writes at once, without the confirmation
HandleImport_WritesAtOnce ==
    /\ CanStart
    /\ \E data \in ImportPayloads :
          /\ importConfirmation # Some([message |-> ImportMessage(data), data |-> data])
          /\ importConfirmation' = Some([message |-> ImportMessage(data), data |-> data])
          /\ tasks' = tasks \cup {[Task(ops + 1, "import", "impAcc") EXCEPT
                                     !.data = Some(data), !.accs = <<>>]}
    /\ ops' = ops + 1
    /\ KeepLocal
    /\ UNCHANGED <<remoteVars, deletingTransaction, editingTransaction, deletingAccount,
                   isLoading, effectRan, failed, origDelta, baseCash, ownerVars, marketVars>>

\* handleImport: the file parsed, the summary shown for confirmation.  A file
\* parseImportedFile rejects is alerted and changes nothing.
HandleImport ==
    /\ Ready /\ ops < MaxOps
    /\ \E data \in ImportPayloads :
          /\ importConfirmation # Some([message |-> ImportMessage(data), data |-> data])
          /\ importConfirmation' = Some([message |-> ImportMessage(data), data |-> data])
    /\ KeepLocal
    /\ UNCHANGED <<remoteVars, deletingTransaction, editingTransaction, deletingAccount,
                   isLoading, tasks, effectRan, ops, failed, origDelta, baseCash, ownerVars, marketVars>>

\* handleImport on a file parseImportedFile rejects, or whose payload has
\* none of the three shapes (reading data.accounts.length throws): the catch
\* alerts the message, nothing else happens
HandleImportRejected ==
    /\ Ready /\ ops < MaxOps
    /\ failed # "importFile"
    /\ failed' = "importFile"
    /\ KeepLocal
    /\ UNCHANGED <<remoteVars, uiVars, isLoading, tasks, effectRan, ops, origDelta,
                   baseCash, ownerVars, marketVars>>

\* ConfirmationModal onClose={() => setImportConfirmation(null)}
CancelImport ==
    /\ Ready
    /\ importConfirmation # None
    /\ importConfirmation' = None
    /\ KeepLocal
    /\ UNCHANGED <<remoteVars, deletingTransaction, editingTransaction, deletingAccount,
                   isLoading, tasks, effectRan, ops, failed, origDelta, baseCash, ownerVars, marketVars>>

\* the work of an import that recreates the first account of a backup only
ImportWork_FirstOnly(data) ==
    IF data.accounts # None
    THEN [i \in 1..(IF Len(Get(data.accounts)) > 0 THEN 1 ELSE 0) |->
            LET acc == Get(data.accounts)[i]
            IN  [name |-> acc.name, cash |-> acc.cash,
                 txs |-> IF acc.id \in DOMAIN data.txmap THEN data.txmap[acc.id]
                         ELSE <<>>]]
    ELSE IF data.account # None
    THEN <<[name |-> Get(data.account).name, cash |-> Get(data.account).cash,
            txs |-> data.txlist]>>
    ELSE <<>>

\* The accounts handleConfirmImport creates, each with the transactions it
\* inserts under the new id: Case 1 (data.accounts is an array) takes
\* importedData.transactions[acc.id] || [], Case 2 ('account' in data) the one
\* account with data.transactions.
ImportWork(data) ==
    IF data.accounts # None
    THEN [i \in 1..Len(Get(data.accounts)) |->
            LET acc == Get(data.accounts)[i]
            IN  [name |-> acc.name, cash |-> acc.cash,
                 txs |-> IF acc.id \in DOMAIN data.txmap THEN data.txmap[acc.id]
                         ELSE <<>>]]
    ELSE IF data.account # None
    THEN <<[name |-> Get(data.account).name, cash |-> Get(data.account).cash,
            txs |-> data.txlist]>>
    ELSE <<>>

\* where handleConfirmImport suspends first
ImportFirstPc(data, activeAccount) ==
    IF data.accounts # None THEN (IF Len(Get(data.accounts)) = 0 THEN "accounts" ELSE "impAcc")
    ELSE IF data.account # None THEN "impAcc"
    ELSE IF data.isArray /\ activeAccount # None THEN "impList"
    ELSE "accounts"

\* handleConfirmImport up to its first await: setIsLoading(true),
\* setImportConfirmation(null), the first insert (or the reload) is sent
ConfirmImportStart ==
    /\ CanStart
    /\ importConfirmation # None
    /\ LET data == Get(importConfirmation).data
           activeAccount == ActiveAccountOf(Get(portfolioData))
           pc == ImportFirstPc(data, activeAccount)
       IN  tasks' = tasks \cup
              {[Task(ops + 1, IF pc = "accounts" THEN "load" ELSE "import", pc) EXCEPT
                  !.acc = activeAccount, !.data = Some(data), !.accs = ImportWork(data)]}
    /\ isLoading' = TRUE
    /\ importConfirmation' = None
    /\ ops' = ops + 1
    /\ KeepLocal
    /\ UNCHANGED <<remoteVars, deletingTransaction, editingTransaction, deletingAccount,
                   effectRan, failed, origDelta, baseCash, ownerVars, marketVars>>

\* the catch deleting the account the import created last
ImportAbort_RollsBack(t) ==
    /\ isLoading' = FALSE
    /\ tasks' = tasks \ {t}
    /\ failed' = t.pc
    /\ rAccounts' = SelectSeq(rAccounts, LAMBDA a : a.id # t.num)
    /\ KeepLocal
    /\ UNCHANGED <<rTxs, nextAccId, nextTxId, uiVars, effectRan, ops, origDelta,
                   baseCash, ownerVars, marketVars>>

\* throw new Error(...) caught: alert; setIsLoading(false)
ImportAbort(t) ==
    /\ isLoading' = FALSE
    /\ tasks' = tasks \ {t}
    /\ failed' = t.pc
    /\ KeepLocal
    /\ UNCHANGED <<remoteVars, uiVars, effectRan, ops, origDelta, baseCash, ownerVars, marketVars>>

\* an insert that skips the transactions the account already has a row for
InsertedRows_SkipKnown(txs, account_id, firstId) ==
    LET fresh == SelectSeq(txs, LAMBDA tx :
                    ~\E i \in 1..Len(rTxs) :
                        /\ rTxs[i].account_id = account_id /\ rTxs[i].type = tx.type
                        /\ rTxs[i].ticker = tx.ticker /\ rTxs[i].shares = tx.shares
                        /\ rTxs[i].price = tx.price /\ rTxs[i].transaction_date = tx.date)
    IN  [i \in 1..Len(fresh) |->
            Row(firstId + i - 1, account_id, fresh[i].type, fresh[i].ticker,
                fresh[i].shares, fresh[i].price, fresh[i].date)]

\* the rows insert(txsToInsert) adds under account_id, with the ids the store assigns
InsertedRows(txs, account_id, firstId) ==
    [i \in 1..Len(txs) |->
        Row(firstId + i - 1, account_id, txs[i].type, txs[i].ticker, txs[i].shares,
            txs[i].price, txs[i].date)]

\* the rows were inserted without a cash write
ImportedDelta(ids) == [id \in (DOMAIN origDelta) \cup ids |->
                          IF id \in ids THEN 0 ELSE origDelta[id]]

\* the task after one account of the import is done: the next account, or
\* fetchPortfolioData up to its first await (which sets isLoading)
ImportAdvance(t) ==
    IF Len(t.accs) > 1
    THEN [t EXCEPT !.accs = Tail(t.accs), !.pc = "impAcc", !.num = 0]
    ELSE [t EXCEPT !.accs = <<>>, !.kind = "load", !.pc = "accounts", !.num = 0]

\* the created account merged into the snapshot in place
ImportAccountInsert_MergeLocal(t) ==
    /\ t.kind = "import" /\ t.pc = "impAcc"
    /\ \/ ImportAbort(t)
       \/ LET acc == Head(t.accs)
              newAcc == Account(nextAccId, acc.name, acc.cash)
              pd == Get(portfolioData)
          IN  /\ rAccounts' = Append(rAccounts, newAcc)
              /\ nextAccId' = nextAccId + 1
              /\ baseCash' = WithBase(newAcc)
              /\ LET u == IF Len(acc.txs) > 0
                           THEN [t EXCEPT !.pc = "impTxs", !.num = newAcc.id]
                           ELSE ImportAdvance(t)
                 IN  /\ tasks' = Replace(t, u)
                     /\ isLoading' = (isLoading \/ u.kind = "load")
              /\ SetPortfolioData(PortfolioData(Append(pd.accounts, newAcc),
                                                (newAcc.id :> acc.txs) @@ pd.transactions,
                                                pd.activeAccountId))
              /\ UNCHANGED <<rTxs, nextTxId, uiVars, effectRan, ops, failed, origDelta, ownerVars, marketVars>>

\* the answer to the insert of an imported account
ImportAccountInsert(t) ==
    /\ t.kind = "import" /\ t.pc = "impAcc"
    /\ \/ ImportAbort(t)
       \/ LET acc == Head(t.accs)
              newAcc == Account(nextAccId, acc.name, acc.cash)
          IN  /\ rAccounts' = Append(rAccounts, newAcc)
              /\ nextAccId' = nextAccId + 1
              /\ baseCash' = WithBase(newAcc)
              /\ LET u == IF Len(acc.txs) > 0
                           THEN [t EXCEPT !.pc = "impTxs", !.num = newAcc.id]
                           ELSE ImportAdvance(t)
                 IN  /\ tasks' = Replace(t, u)
                     /\ isLoading' = (isLoading \/ u.kind = "load")
              /\ KeepLocal
              /\ UNCHANGED <<rTxs, nextTxId, uiVars, effectRan, ops, failed, origDelta, ownerVars, marketVars>>

\* the transactions inserted under the account ids they carry in the file
ImportTransactionsInsert_PayloadAccount(t) ==
    /\ t.kind = "import" /\ t.pc = "impTxs"
    /\ \/ ImportAbort(t)
       \/ LET txs == Head(t.accs).txs
              rows == [i \in 1..Len(txs) |->
                         Row(nextTxId + i - 1, txs[i].account_id, txs[i].type,
                             txs[i].ticker, txs[i].shares, txs[i].price, txs[i].date)]
          IN  /\ rTxs' = rTxs \o rows
              /\ nextTxId' = nextTxId + Len(rows)
              /\ origDelta' = ImportedDelta(Ids(rows))
              /\ tasks' = Replace(t, ImportAdvance(t))
              /\ isLoading' = (isLoading \/ ImportAdvance(t).kind = "load")
              /\ KeepLocal
              /\ UNCHANGED <<rAccounts, nextAccId, uiVars, effectRan, ops, failed, baseCash, ownerVars, marketVars>>

\* the answer to the insert of an imported account's transactions
ImportTransactionsInsert(t) ==
    /\ t.kind = "import" /\ t.pc = "impTxs"
    /\ \/ ImportAbort(t)
       \/ LET rows == InsertedRows(Head(t.accs).txs, t.num, nextTxId)
          IN  /\ rTxs' = rTxs \o rows
              /\ nextTxId' = nextTxId + Len(rows)
              /\ origDelta' = ImportedDelta(Ids(rows))
              /\ tasks' = Replace(t, ImportAdvance(t))
              /\ isLoading' = (isLoading \/ ImportAdvance(t).kind = "load")
              /\ KeepLocal
              /\ UNCHANGED <<rAccounts, nextAccId, uiVars, effectRan, ops, failed, baseCash, ownerVars, marketVars>>

\* the list inserted under the account ids its transactions carry in the file
ImportListInsert_PayloadAccount(t) ==
    /\ t.kind = "import" /\ t.pc = "impList"
    /\ \/ ImportAbort(t)
       \/ LET list == Get(t.data).list
              rows == [i \in 1..Len(list) |->
                         Row(nextTxId + i - 1, list[i].account_id, list[i].type,
                             list[i].ticker, list[i].shares, list[i].price, list[i].date)]
          IN  /\ rTxs' = rTxs \o rows
              /\ nextTxId' = nextTxId + Len(rows)
              /\ origDelta' = ImportedDelta(Ids(rows))
              /\ tasks' = Replace(t, [t EXCEPT !.kind = "load", !.pc = "accounts"])
              /\ isLoading' = TRUE
              /\ KeepLocal
              /\ UNCHANGED <<rAccounts, nextAccId, uiVars, effectRan, ops, failed, baseCash, ownerVars, marketVars>>

\* the answer to the insert of a bare list under the active account
ImportListInsert(t) ==
    /\ t.kind = "import" /\ t.pc = "impList"
    /\ \/ ImportAbort(t)
       \/ LET rows == InsertedRows(Get(t.data).list, Get(t.acc).id, nextTxId)
          IN  /\ rTxs' = rTxs \o rows
              /\ nextTxId' = nextTxId + Len(rows)
              /\ origDelta' = ImportedDelta(Ids(rows))
              /\ tasks' = Replace(t, [t EXCEPT !.kind = "load", !.pc = "accounts"])
              /\ isLoading' = TRUE
              /\ KeepLocal
              /\ UNCHANGED <<rAccounts, nextAccId, uiVars, effectRan, ops, failed, baseCash, ownerVars, marketVars>>

\* ------------------------------------------------------------ market data

\* Shares are counted in units of 0.00001 share, so that the threshold of the
\* positions effect, 0.00001, is one unit; prices are per unit.  Costs and
\* averages are fractions n/d in lowest terms with d > 0: the arithmetic of
\* calculatePositions without the rounding of its floating-point numbers.
Epsilon == 1

RECURSIVE GCD(_, _)
GCD(a, b) == IF b = 0 THEN a ELSE GCD(b, a % b)

Abs(x) == IF x < 0 THEN -x ELSE x

\* the fraction n/d, d # 0
Frac(n, d) ==
    LET g == GCD(Abs(n), Abs(d))
        sgn == IF d < 0 THEN -1 ELSE 1
    IN  [n |-> sgn * (n \div g), d |-> sgn * (d \div g)]

FracPlus(a, b) == Frac(a.n * b.d + b.n * a.d, a.d * b.d)
FracMinus(a, b) == Frac(a.n * b.d - b.n * a.d, a.d * b.d)
FracTimes(a, b) == Frac(a.n * b.n, a.d * b.d)
FracOver(a, b) == Frac(a.n * b.d, a.d * b.n)
Whole(i) == Frac(i, 1)

\* Object.keys(pos): the tickers in the order their entries were created
RECURSIVE KeysOf(_)
KeysOf(transactions) ==
    IF transactions = <<>> THEN <<>>
    ELSE LET before == KeysOf(SubSeq(transactions, 1, Len(transactions) - 1))
             ticker == transactions[Len(transactions)].ticker
         IN  IF ticker \in Range(before) THEN before ELSE Append(before, ticker)

RECURSIVE CalculatePositions(_)
\* a reducer whose last step takes what a sale brought in off the cost
CalculatePositions_SaleProceeds(transactions) ==
    IF transactions = <<>> THEN [k \in {} |-> [shares |-> 0, cost |-> Whole(0)]]
    ELSE LET pos == CalculatePositions(SubSeq(transactions, 1, Len(transactions) - 1))
             tx == transactions[Len(transactions)]
             cur == IF tx.ticker \in DOMAIN pos THEN pos[tx.ticker]
                    ELSE [shares |-> 0, cost |-> Whole(0)]
             new == IF tx.type = "BUY"
                    THEN [shares |-> cur.shares + tx.shares,
                          cost |-> FracPlus(cur.cost, Whole(tx.shares * tx.price))]
                    ELSE [shares |-> cur.shares - tx.shares,
                          cost |-> FracMinus(cur.cost, Whole(tx.shares * tx.price))]
         IN  [k \in (DOMAIN pos) \cup {tx.ticker} |->
                 IF k = tx.ticker THEN new ELSE pos[k]]

\* calculatePositions: pos after the forEach, by ticker
CalculatePositions(transactions) ==
    IF transactions = <<>> THEN [k \in {} |-> [shares |-> 0, cost |-> Whole(0)]]
    ELSE LET pos == CalculatePositions(SubSeq(transactions, 1, Len(transactions) - 1))
             tx == transactions[Len(transactions)]
             cur == IF tx.ticker \in DOMAIN pos THEN pos[tx.ticker]
                    ELSE [shares |-> 0, cost |-> Whole(0)]
             costBasisPerShare == IF cur.shares > 0
                                  THEN FracOver(cur.cost, Whole(cur.shares))
                                  ELSE Whole(0)
             new == IF tx.type = "BUY"
                    THEN [shares |-> cur.shares + tx.shares,
                          cost |-> FracPlus(cur.cost, Whole(tx.shares * tx.price))]
                    ELSE [shares |-> cur.shares - tx.shares,
                          cost |-> FracMinus(cur.cost,
                                       FracTimes(Whole(tx.shares), costBasisPerShare))]
         IN  [k \in (DOMAIN pos) \cup {tx.ticker} |->
                 IF k = tx.ticker THEN new ELSE pos[k]]

\* Object.keys(posMap).filter(ticker => posMap[ticker].shares > 0.00001)
QuoteTickers(transactions) ==
    SelectSeq(KeysOf(transactions),
              LAMBDA ticker : CalculatePositions(transactions)[ticker].shares > Epsilon)

\* Object.keys(posMap).filter(ticker => posMap[ticker].shares > 0)
HistoryTickers(transactions) ==
    SelectSeq(KeysOf(transactions),
              LAMBDA ticker : CalculatePositions(transactions)[ticker].shares > 0)

\* a Position that reports the cost of the holding as its average cost
Position_TotalCost(ticker, pos) ==
    [ticker |-> ticker, shares |-> pos.shares, averageCost |-> pos.cost]

\* a Position (types.ts) built from posMap[quote.ticker]; the quote's price
\* is the provider's and is left out
Position(ticker, pos) ==
    [ticker |-> ticker, shares |-> pos.shares,
     averageCost |-> IF pos.shares > 0 THEN FracOver(pos.cost, Whole(pos.shares))
                     ELSE Whole(0)]

\* quotes.map(quote => ...): one Position per quote, in the order requested
NewPositions(posMap, tickers) ==
    [i \in 1..Len(tickers) |-> Position(tickers[i], posMap[tickers[i]])]

\* the holdings whose prices calculateHistory sums up by date
Valued(posMap, tickers) ==
    [i \in 1..Len(tickers) |-> [ticker |-> tickers[i], shares |-> posMap[tickers[i]].shares]]

\* activeTransactions of the current render (the list of no snapshot is [])
ActiveTransactions ==
    IF portfolioData = None THEN <<>> ELSE ActiveTransactionsOf(Get(portfolioData))

\* what the effects compare to decide whether to run again
PositionsDeps == Some(ActiveTransactions)
HistoryDeps == Some(<<ActiveTransactions, isMarketDataLoading>>)

\* an effect has to run for the current render
EffectsPending == posDeps # PositionsDeps \/ histDeps # HistoryDeps

\* a fan-out awaited: its kind and what its continuation closes over
Fanout(kind, transactions, tickers) ==
    [kind |-> kind, posMap |-> CalculatePositions(transactions), tickers |-> tickers]

\* effects that drop the fan-outs of earlier renders when they start their own
RunEffects_CancelsOlder ==
    /\ EffectsPending
    /\ LET runPositions == posDeps # PositionsDeps
           runHistory == histDeps # HistoryDeps /\ ~isMarketDataLoading
           quoteTickers == QuoteTickers(ActiveTransactions)
           historyTickers == HistoryTickers(ActiveTransactions)
           quotes == IF runPositions /\ quoteTickers # <<>>
                     THEN {Fanout("quotes", ActiveTransactions, quoteTickers)} ELSE {}
           histories == IF runHistory /\ historyTickers # <<>>
                        THEN {Fanout("history", ActiveTransactions, historyTickers)}
                        ELSE {}
       IN  /\ positions' = IF runPositions /\ quoteTickers = <<>> THEN <<>> ELSE positions
           /\ isMarketDataLoading' = IF runPositions THEN quoteTickers # <<>>
                                     ELSE isMarketDataLoading
           /\ historicalPortfolioValue' =
                 IF runHistory /\ historyTickers = <<>> THEN <<>>
                 ELSE historicalPortfolioValue
           /\ isHistoryLoading' = IF runHistory THEN historyTickers # <<>>
                                  ELSE isHistoryLoading
           /\ fanouts' = {f \in fanouts : (f.kind = "quotes" /\ quotes = {})
                                           \/ (f.kind = "history" /\ histories = {})}
                            \cup quotes \cup histories
    /\ posDeps' = PositionsDeps
    /\ histDeps' = HistoryDeps
    /\ UNCHANGED <<remoteVars, portfolioData, isLoading, uiVars, cacheVars, tasks,
                   effectRan, ops, histVars, ownerVars, blobOwner, isApiError>>

\* The effects of one render, in the order declared: the positions effect
\* (deps [activeTransactions]) and the history effect (deps
\* [activeTransactions, isMarketDataLoading, historicalDays]), each run when
\* a dependency of its changed.  Both see isMarketDataLoading as rendered.
RunEffects ==
    /\ EffectsPending
    /\ LET runPositions == posDeps # PositionsDeps
           runHistory == histDeps # HistoryDeps /\ ~isMarketDataLoading
           quoteTickers == QuoteTickers(ActiveTransactions)
           historyTickers == HistoryTickers(ActiveTransactions)
           quotes == IF runPositions /\ quoteTickers # <<>>
                     THEN {Fanout("quotes", ActiveTransactions, quoteTickers)} ELSE {}
           histories == IF runHistory /\ historyTickers # <<>>
                        THEN {Fanout("history", ActiveTransactions, historyTickers)}
                        ELSE {}
       IN  /\ positions' = IF runPositions /\ quoteTickers = <<>> THEN <<>> ELSE positions
           /\ isMarketDataLoading' = IF runPositions THEN quoteTickers # <<>>
                                     ELSE isMarketDataLoading
           /\ historicalPortfolioValue' =
                 IF runHistory /\ historyTickers = <<>> THEN <<>>
                 ELSE historicalPortfolioValue
           /\ isHistoryLoading' = IF runHistory THEN historyTickers # <<>>
                                  ELSE isHistoryLoading
           /\ fanouts' = fanouts \cup quotes \cup histories
    /\ posDeps' = PositionsDeps
    /\ histDeps' = HistoryDeps
    /\ UNCHANGED <<remoteVars, portfolioData, isLoading, uiVars, cacheVars, tasks,
                   effectRan, ops, histVars, ownerVars, blobOwner, isApiError>>

\* what fetchQuote(ticker) resolves to: the provider's quote, or a mock
\* quote (isMock) when the request for the ticker failed
FetchQuoteOutcomes == {"quote", "mock"}

\* a fan-out whose continuation is lost when a quote is a mock one
QuotesArrive_MockBlocks(f) ==
    /\ f \in fanouts /\ f.kind = "quotes"
    /\ ~EffectsPending
    /\ \E outcomes \in [1..Len(f.tickers) -> FetchQuoteOutcomes] :
          LET hasMockData == \E i \in 1..Len(f.tickers) : outcomes[i] = "mock"
          IN  IF hasMockData
              THEN UNCHANGED <<positions, isApiError, isMarketDataLoading>>
              ELSE /\ positions' = NewPositions(f.posMap, f.tickers)
                   /\ isApiError' = FALSE
                   /\ isMarketDataLoading' = FALSE
    /\ fanouts' = fanouts \ {f}
    /\ UNCHANGED <<remoteVars, portfolioData, isLoading, uiVars, cacheVars, tasks,
                   effectRan, ops, histVars, ownerVars, blobOwner,
                   historicalPortfolioValue, isHistoryLoading, posDeps, histDeps>>

\* await Promise.all(quotePromises) resumes: every quote is there, each the
\* provider's or a mock one
QuotesArrive(f) ==
    /\ f \in fanouts /\ f.kind = "quotes"
    /\ ~EffectsPending
    /\ \E outcomes \in [1..Len(f.tickers) -> FetchQuoteOutcomes] :
          LET hasMockData == \E i \in 1..Len(f.tickers) : outcomes[i] = "mock"
          IN  /\ positions' = NewPositions(f.posMap, f.tickers)
              /\ isApiError' = hasMockData
    /\ isMarketDataLoading' = FALSE
    /\ fanouts' = fanouts \ {f}
    /\ UNCHANGED <<remoteVars, portfolioData, isLoading, uiVars, cacheVars, tasks,
                   effectRan, ops, histVars, ownerVars, blobOwner,
                   historicalPortfolioValue, isHistoryLoading, posDeps, histDeps>>

\* await Promise.all(historyPromises) resumes
HistoriesArrive(f) ==
    /\ f \in fanouts /\ f.kind = "history"
    /\ ~EffectsPending
    /\ historicalPortfolioValue' = Valued(f.posMap, f.tickers)
    /\ isHistoryLoading' = FALSE
    /\ fanouts' = fanouts \ {f}
    /\ UNCHANGED <<remoteVars, portfolioData, isLoading, uiVars, cacheVars, tasks,
                   effectRan, ops, histVars, ownerVars, blobOwner,
                   positions, isMarketDataLoading, isApiError, posDeps, histDeps>>

\* ------------------------------------------------------------------ export

\* exportAllData(portfolioData, 'json'): the full backup, in the shape of the
\* snapshot: the accounts and the transactions by account id
ExportAllData(pd) == [accounts |-> pd.accounts, transactions |-> pd.transactions]

\* handleExportAll: what it hands out in this state, if anything
HandleExportAll ==
    IF portfolioData # None THEN Some(ExportAllData(Get(portfolioData))) ELSE None

\* ------------------------------------------------------ signOut, sign in

\* Header onSignOut={signOut}, then the other owner signs in: onAuthStateChange
\* publishes the new user, App unmounts the Dashboard at the null session and
\* mounts a new one, whose state starts as useState initialises it.  The
\* owner signs out when no call is in flight.  localStorage stays as it is;
\* the tables and the `activeAccountId_${user.id}` entry seen from now on are
\* those of the owner signing in.
ChangeOwner ==
    /\ CanStart
    /\ tasks = {}
    /\ user' = OtherOwner(user)
    /\ away' = Kept(rAccounts, rTxs, lsActive)
    /\ rAccounts' = away.accounts
    /\ rTxs' = away.txs
    /\ lsActive' = away.lsActive
    /\ portfolioData' = None
    /\ isLoading' = TRUE
    /\ deletingTransaction' = None
    /\ editingTransaction' = None
    /\ deletingAccount' = None
    /\ importConfirmation' = None
    /\ effectRan' = FALSE
    /\ failed' = NoFailure
    /\ ops' = ops + 1
    /\ positions' = <<>>
    /\ isMarketDataLoading' = TRUE
    /\ isApiError' = FALSE
    /\ historicalPortfolioValue' = <<>>
    /\ isHistoryLoading' = TRUE
    /\ fanouts' = {}
    /\ posDeps' = None
    /\ histDeps' = None
    /\ UNCHANGED <<nextAccId, nextTxId, lsBlob, blobOwner, tasks, origDelta, baseCash>>

Next ==
    \/ LoadEffect
    \/ \E t \in tasks : LoadAccounts(t)
    \/ \E t \in tasks : LoadCreateDefault(t)
    \/ \E t \in tasks : LoadTransactions(t)
    \/ \E nt \in NewTransactions : AddTransactionStart(nt)
    \/ \E t \in tasks : AddTransactionCash(t)
    \/ \E t \in tasks : AddTransactionInsert(t)
    \/ SelectDeleteTransaction
    \/ CancelDeleteTransaction
    \/ DeleteTransactionStart
    \/ \E t \in tasks : DeleteTransactionCash(t)
    \/ \E t \in tasks : DeleteTransactionRow(t)
    \/ SelectEditTransaction
    \/ CancelEditTransaction
    \/ \E f \in EditedFields : UpdateTransactionStart(f)
    \/ \E t \in tasks : UpdateTransactionRow(t)
    \/ \E c \in CashEdits : UpdateCashStart(c)
    \/ \E t \in tasks : UpdateCashDone(t)
    \/ SwitchAccount
    \/ \E name \in NewAccountNames : AddAccountStart(name)
    \/ \E t \in tasks : AddAccountDone(t)
    \/ \E id \in 1..9, name \in RenamedTo : UpdateAccountStart(id, name)
    \/ \E t \in tasks : UpdateAccountDone(t)
    \/ SelectDeleteAccount
    \/ CancelDeleteAccount
    \/ DeleteAccountStart
    \/ \E t \in tasks : DeleteAccountDone(t)
    \/ HandleImport
    \/ HandleImportRejected
    \/ CancelImport
    \/ ConfirmImportStart
    \/ \E t \in tasks : ImportAccountInsert(t)
    \/ \E t \in tasks : ImportTransactionsInsert(t)
    \/ \E t \in tasks : ImportListInsert(t)
    \/ ChangeOwner

Spec == Init /\ [][Next]_vars

\* The ledger alone: the load, appends and deletes of transactions, and the
\* account switch.
NextLedger ==
    \/ LoadEffect
    \/ \E t \in tasks : LoadAccounts(t)
    \/ \E t \in tasks : LoadCreateDefault(t)
    \/ \E t \in tasks : LoadTransactions(t)
    \/ \E nt \in NewTransactions : AddTransactionStart(nt)
    \/ \E t \in tasks : AddTransactionCash(t)
    \/ \E t \in tasks : AddTransactionInsert(t)
    \/ SelectDeleteTransaction
    \/ CancelDeleteTransaction
    \/ DeleteTransactionStart
    \/ \E t \in tasks : DeleteTransactionCash(t)
    \/ \E t \in tasks : DeleteTransactionRow(t)
    \/ SwitchAccount

SpecLedger == Init /\ [][NextLedger]_vars

\* The load alone: the first load, and imports with the reload that ends them.
NextLoad ==
    \/ LoadEffect
    \/ \E t \in tasks : LoadAccounts(t)
    \/ \E t \in tasks : LoadCreateDefault(t)
    \/ \E t \in tasks : LoadTransactions(t)
    \/ HandleImport
    \/ HandleImportRejected
    \/ CancelImport
    \/ ConfirmImportStart
    \/ \E t \in tasks : ImportAccountInsert(t)
    \/ \E t \in tasks : ImportTransactionsInsert(t)
    \/ \E t \in tasks : ImportListInsert(t)

SpecLoad == Init /\ [][NextLoad]_vars

\* The edits alone: the load, appends and updates of transactions.
NextEdit ==
    \/ LoadEffect
    \/ \E t \in tasks : LoadAccounts(t)
    \/ \E t \in tasks : LoadCreateDefault(t)
    \/ \E t \in tasks : LoadTransactions(t)
    \/ \E nt \in NewTransactions : AddTransactionStart(nt)
    \/ \E t \in tasks : AddTransactionCash(t)
    \/ \E t \in tasks : AddTransactionInsert(t)
    \/ SelectEditTransaction
    \/ CancelEditTransaction
    \/ \E f \in EditedFields : UpdateTransactionStart(f)
    \/ \E t \in tasks : UpdateTransactionRow(t)

SpecEdit == Init /\ [][NextEdit]_vars

\* loadOfflineData alone, applied to whatever text the key may hold when the
\* Dashboard mounts.
InitCache == InitButBlob /\ lsBlob \in {None} \cup {Some(c) : c \in CachedTexts}

NextCache == LoadOfflineData

SpecCache == InitCache /\ [][NextCache]_vars

\* The valuation alone: the effects and their fan-outs on a snapshot that a
\* load has just published, whose one account holds any list of up to
\* MaxTxs transactions, in any order.
MaxTxs == 3

PositionTxs ==
    { Transaction(NoId, 1, type, ticker, shares, price, 1) :
         type \in TxTypes, ticker \in {"T1", "T2"}, shares \in {1, 2}, price \in {1, 2} }

PositionInputs ==
    UNION { [1..n -> PositionTxs] : n \in 0..MaxTxs }

\* the effects have run on the empty list of the mount, nothing is awaited
MountedIdle ==
    /\ positions = <<>>
    /\ isMarketDataLoading = FALSE
    /\ isApiError = FALSE
    /\ historicalPortfolioValue = <<>>
    /\ isHistoryLoading = FALSE
    /\ fanouts = {}
    /\ posDeps = Some(<<>>)
    /\ histDeps = Some(<<<<>>, FALSE>>)

\* the state in which a load has just published the snapshot of this store
\* and the effects have not run on it yet
Published(accounts, rows, activeId) ==
    LET pd == PortfolioData(accounts, GroupByAccount(accounts, rows), activeId)
    IN  /\ rAccounts = accounts
        /\ rTxs = rows
        /\ origDelta = [id \in Ids(rows) |->
               LET r == CHOOSE x \in Range(rows) : x.id = id
               IN  AppendDelta(r.type, r.shares, r.price)]
        /\ baseCash = [id \in Ids(accounts) |->
               LET a == CHOOSE x \in Range(accounts) : x.id = id
               IN  a.cash - LedgerDelta(SelectSeq(rows, LAMBDA r : r.account_id = id))]
        /\ portfolioData = Some(pd)
        /\ lsBlob = MirroredBlob(pd)
        /\ lsActive = activeId
        /\ nextAccId = FirstNewAccId
        /\ nextTxId = MaxTxs + 1
        /\ isLoading = FALSE
        /\ deletingTransaction = None
        /\ editingTransaction = None
        /\ deletingAccount = None
        /\ importConfirmation = None
        /\ tasks = {}
        /\ effectRan = TRUE
        /\ ops = 0
        /\ failed = NoFailure
        /\ user = FirstOwner
        /\ away = Kept(<<>>, <<>>, NoId)
        /\ blobOwner = Some(FirstOwner)
        /\ MountedIdle

InitPositions ==
    \E txs \in PositionInputs :
       Published(<<Account(1, "Main", 100)>>,
                 [i \in 1..Len(txs) |->
                     Row(i, 1, txs[i].type, txs[i].ticker, txs[i].shares,
                         txs[i].price, txs[i].date)],
                 1)

NextPositions ==
    \/ RunEffects
    \/ \E f \in fanouts : QuotesArrive(f)
    \/ \E f \in fanouts : HistoriesArrive(f)

SpecPositions == InitPositions /\ [][NextPositions]_vars

\* The valuation while the active account is switched: two accounts with a
\* holding each; the effects of a render run before anything else happens.
InitMarket ==
    Published(<<Account(1, "Main", 100), Account(2, "IRA", 50)>>,
              <<Row(1, 1, "BUY", "T1", 2, 3, 2), Row(2, 2, "BUY", "T2", 3, 1, 1)>>,
              1)

NextMarket ==
    \/ RunEffects
    \/ ~EffectsPending /\ SwitchAccount
    \/ \E f \in fanouts : QuotesArrive(f)
    \/ \E f \in fanouts : HistoriesArrive(f)

SpecMarket == InitMarket /\ [][NextMarket]_vars

\* The effects of a render are run, and every request is answered, by the
\* provider or by the fallback, however often the account is switched.
SpecMarketLive ==
    /\ SpecMarket
    /\ WF_vars(RunEffects)
    /\ SF_vars(\E f \in fanouts : QuotesArrive(f))
    /\ SF_vars(\E f \in fanouts : HistoriesArrive(f))

\* onDismiss of the ApiErrorBanner, rendered while isApiError is set
DismissApiError ==
    /\ isApiError
    /\ isApiError' = FALSE
    /\ UNCHANGED <<remoteVars, portfolioData, isLoading, uiVars, cacheVars, tasks,
                   effectRan, ops, histVars, ownerVars, blobOwner,
                   positions, isMarketDataLoading, historicalPortfolioValue,
                   isHistoryLoading, fanouts, posDeps, histDeps>>

\* The indicator while the active account is switched between an account
\* with one or two holdings and one that holds nothing.
InitIndicator ==
    \E second \in {<<>>, <<Row(2, 1, "BUY", "T2", 3, 1, 2)>>,
                   <<Row(2, 1, "SELL", "T1", 1, 4, 2)>>} :
       Published(<<Account(1, "Main", 100), Account(2, "Cash", 50)>>,
                 <<Row(1, 1, "BUY", "T1", 2, 3, 1)>> \o second,
                 1)

NextIndicator ==
    \/ RunEffects
    \/ ~EffectsPending /\ SwitchAccount
    \/ ~EffectsPending /\ DismissApiError
    \/ \E f \in fanouts : QuotesArrive(f)
    \/ \E f \in fanouts : HistoriesArrive(f)

SpecIndicator == InitIndicator /\ [][NextIndicator]_vars

\* setUser(session?.user ?? null) of the onAuthStateChange callback, after
\* getSession has published the same owner: the user object is a new one, so
\* fetchPortfolioData ([user]) is a new callback and the load effect
\* ([user, fetchPortfolioData]) runs again, whatever is in flight.
AuthRepublishesUser ==
    /\ effectRan
    /\ ops < MaxOps
    /\ isLoading' = TRUE
    /\ tasks' = tasks \cup {Task(ops + 1, "load", "accounts")}
    /\ ops' = ops + 1
    /\ KeepLocal
    /\ UNCHANGED <<remoteVars, uiVars, effectRan, failed, origDelta, baseCash,
                   ownerVars, marketVars>>

\* The loads of a session whose owner is published more than once.
NextReload ==
    \/ LoadEffect
    \/ AuthRepublishesUser
    \/ \E t \in tasks : LoadAccounts(t)
    \/ \E t \in tasks : LoadCreateDefault(t)
    \/ \E t \in tasks : LoadTransactions(t)

SpecReload == Init /\ [][NextReload]_vars

\* A payload that carries both an account field and an accounts array; its
\* transactions are an array, so importedData.transactions[acc.id] of an
\* account with id 7 is undefined.
MixedPayload ==
    ImportData(FALSE, <<>>, Some([name |-> "Imp", cash |-> 20]), <<ImportedTx>>,
               Some(<<Account(7, "Old", 30)>>), <<>>)

\* handleImport on a file with that payload: 'account' in data is tested
\* before data.accounts is looked at
HandleImportMixed ==
    /\ Ready /\ ops < MaxOps
    /\ LET conf == [message |-> ImportMessage(MixedPayload), data |-> MixedPayload]
       IN  /\ importConfirmation # Some(conf)
           /\ importConfirmation' = Some(conf)
    /\ KeepLocal
    /\ UNCHANGED <<remoteVars, deletingTransaction, editingTransaction, deletingAccount,
                   isLoading, tasks, effectRan, ops, failed, origDelta, baseCash,
                   ownerVars, marketVars>>

\* The imports of every shape, with the load that ends them.
NextShapes ==
    \/ NextLoad
    \/ HandleImportMixed

SpecShapes == Init /\ [][NextShapes]_vars

\* ------------------------------------------------------------------ claims

\* rows of the remote transactions table that belong to account id
RowsOf(id) == SelectSeq(rTxs, LAMBDA r : r.account_id = id)

\* C1: after any sequence of successful appends and deletes, with nothing in
\* flight, every account's cash, in the remote store and in the snapshot,
\* equals its initial cash + deposits - withdrawals - buys + sells over the
\* transactions now in its ledger.
C1_CashMatchesLedger ==
    (tasks = {} /\ failed = NoFailure /\ portfolioData # None) =>
        /\ \A i \in 1..Len(rAccounts) :
              rAccounts[i].cash =
                  baseCash[rAccounts[i].id] + LedgerDelta(RowsOf(rAccounts[i].id))
        /\ \A i \in 1..Len(Get(portfolioData).accounts) :
              LET acc == Get(portfolioData).accounts[i]
              IN  acc.cash = baseCash[acc.id]
                               + LedgerDelta(Get(portfolioData).transactions[acc.id])

\* an append or delete handler suspended at one of its two awaits
LedgerTask(t) == t.kind \in {"addTx", "delTx"}

\* C2: in every append and delete the cash write precedes the row write: a
\* handler waits for its row write only after its cash write succeeded, a
\* row is inserted or removed only by such a handler, and a handler whose
\* cash write fails ends there, leaving the remote tables and the snapshot
\* as they were.
C2_CashWriteFirst ==
    [][\A t \in tasks : LedgerTask(t) =>
          /\ (t.pc = "row" => t.cashOk)
          /\ (t.pc = "cash" /\ tasks' = tasks \ {t}) =>
                /\ rTxs' = rTxs
                /\ rAccounts' = rAccounts
                /\ portfolioData' = portfolioData
          /\ (t \notin tasks' /\ Ids(rTxs') # Ids(rTxs)) =>
                t.pc = "row" /\ t.cashOk]_vars

\* C2 witness: an append or delete ended at a failed cash write.
C2_Witness == failed = "cashFail" /\ tasks = {} /\ ops >= 1

\* C3: a delete of a BUY applies the reverse of the cash delta applied when
\* that transaction was appended, whatever edits it went through since.
C3_DeleteReversesAppend ==
    \A t \in tasks :
        (t.kind = "delTx" /\ Get(t.tx).type = "BUY") =>
            t.num - Get(t.acc).cash = -origDelta[Get(t.tx).id]

\* C4: whenever a snapshot exists, every account id of snapshot.accounts is a
\* key of snapshot.transactions, and snapshot.activeAccountId is null or the
\* id of an account of snapshot.accounts.
C4_SnapshotWellFormed ==
    portfolioData # None =>
        LET pd == Get(portfolioData)
        IN  /\ Ids(pd.accounts) \subseteq DOMAIN pd.transactions
            /\ pd.activeAccountId = NoId \/ pd.activeAccountId \in Ids(pd.accounts)

\* C4 witness: the active account was deleted and the remaining one took over.
C4_Witness ==
    /\ portfolioData # None /\ tasks = {} /\ failed = NoFailure /\ ops >= 1
    /\ Ids(rAccounts) = {2}
    /\ Ids(Get(portfolioData).accounts) = {2}
    /\ Get(portfolioData).activeAccountId = 2
    /\ lsActive = 2

\* C5: once a load has succeeded the owner has at least one account, in the
\* remote store and in the snapshot, whatever account deletions were
\* confirmed and however their responses interleave.
C5_AtLeastOneAccount ==
    portfolioData # None =>
        /\ Len(rAccounts) >= 1
        /\ Len(Get(portfolioData).accounts) >= 1

\* the task that continues t after a step, if any
Succ(t) == {u \in tasks' : u.n = t.n}

\* C6: a load goes on to create the default account exactly when its fetch
\* returned no account; the creation adds one account with the starting cash
\* 10000 to the remote store and the load goes on to fetch transactions with
\* it; a failed creation ends the load there: no transaction fetch is issued,
\* no snapshot is published, the remote tables stay as they were.
C6_DefaultAccountOrAbort ==
    [][\A t \in tasks : (t.kind = "load" /\ t \notin tasks') =>
          /\ (t.pc = "accounts" /\ Succ(t) # {}) =>
                \A u \in Succ(t) : (u.pc = "create") <=> (rAccounts = <<>>)
          /\ (t.pc = "create" /\ Succ(t) = {}) =>
                /\ rAccounts' = rAccounts
                /\ rTxs' = rTxs
                /\ portfolioData' = portfolioData
                /\ lsBlob' = lsBlob
          /\ (t.pc = "create" /\ Succ(t) # {}) =>
                /\ Len(rAccounts') = Len(rAccounts) + 1
                /\ SubSeq(rAccounts', 1, Len(rAccounts)) = rAccounts
                /\ rAccounts'[Len(rAccounts')].cash = DefaultCash
                /\ \A u \in Succ(t) :
                      u.pc = "txs" /\ u.accs = <<rAccounts'[Len(rAccounts')]>>]_vars

\* C6 witness: the creation of the default account failed and the load ended
\* with no snapshot and no account.
C6_Witness ==
    failed = "create" /\ tasks = {} /\ portfolioData = None /\ rAccounts = <<>>

\* a load (the first, or the reload that ends an import) ends at a failed call
LoadFails(t) == t.kind = "load" /\ tasks' = tasks \ {t} /\ failed' = t.pc

\* C7: a load whose account fetch, default-account creation or transaction
\* fetch fails leaves the session out of READY, for the first load and for a
\* reload started after an import.
C7_FailedLoadNotReady ==
    [][\A t \in tasks : LoadFails(t) => ~Ready']_vars

\* C7 amended: a failed load publishes no snapshot and clears the loading
\* flag: after a failed first load nothing is shown as loaded, after a failed
\* reload the snapshot from before the import is shown as loaded again.
C7_FailedLoadKeepsSnapshot ==
    [][\A t \in tasks : LoadFails(t) =>
          /\ portfolioData' = portfolioData
          /\ ~isLoading'
          /\ (t.n = 0 => ~Ready')
          /\ (t.n # 0 => Ready')]_vars

\* C7 witness: the reload after an import failed and the session is READY.
C7_Witness ==
    failed \in {"accounts", "txs"} /\ tasks = {} /\ ops >= 1 /\ Ready

\* a load receives its transactions and publishes its snapshot
LoadPublishes(t) ==
    t.kind = "load" /\ t.pc = "txs" /\ tasks' = tasks \ {t} /\ failed' = NoFailure

\* where the fetched row with this id stands in the order returned
PosOf(id) == CHOOSE i \in 1..Len(rTxs) : rTxs[i].id = id

\* C8: a successful load reaches READY with a snapshot whose transactions
\* have exactly the fetched accounts' ids as keys; the list under a key holds
\* each fetched row of that account once, as the row reads, in the order
\* returned; a row of an account that was not fetched is in no list.
C8_GroupedByAccount ==
    [][\A t \in tasks : LoadPublishes(t) =>
          /\ Ready'
          /\ portfolioData'[1].accounts = t.accs
          /\ DOMAIN portfolioData'[1].transactions = Ids(t.accs)
          /\ \A k \in DOMAIN portfolioData'[1].transactions :
                LET list == portfolioData'[1].transactions[k]
                IN  /\ {list[i].id : i \in 1..Len(list)} =
                          {rTxs[j].id : j \in {x \in 1..Len(rTxs) : rTxs[x].account_id = k}}
                    /\ \A i \in 1..Len(list) :
                          /\ list[i] = RowToTx(rTxs[PosOf(list[i].id)])
                          /\ \A j \in (i + 1)..Len(list) :
                                PosOf(list[i].id) < PosOf(list[j].id)]_vars

\* C8 witness: the first load of the populated store is READY; the store
\* holds a row of an account that was not fetched, and a row that was grouped.
C8_Witness ==
    /\ Ready /\ ops = 0
    /\ \E i \in 1..Len(rTxs) : rTxs[i].account_id \notin Ids(rAccounts)
    /\ \E k \in DOMAIN Get(portfolioData).transactions :
          Get(portfolioData).transactions[k] # <<>>

\* C9: a successful load makes the remembered active-account id the active
\* one if a fetched account has it, and the first fetched account's id
\* otherwise; the active id is always a fetched account's.
C9_ActiveResolved ==
    [][\A t \in tasks : LoadPublishes(t) =>
          /\ portfolioData'[1].activeAccountId \in Ids(t.accs)
          /\ (lsActive \in Ids(t.accs) =>
                portfolioData'[1].activeAccountId = lsActive)
          /\ (lsActive \notin Ids(t.accs) =>
                portfolioData'[1].activeAccountId = t.accs[1].id)]_vars

\* C9 witness: the first load made the remembered second account active.
C9_Witness ==
    /\ Ready /\ ops = 0
    /\ Len(Get(portfolioData).accounts) = 2
    /\ Get(portfolioData).activeAccountId = Get(portfolioData).accounts[2].id

\* C10: whenever a snapshot exists (and the cache effect has run for it) the
\* cached blob reads back as that snapshot and the remembered active-account
\* id is the snapshot's.
C10_WriteThrough ==
    portfolioData # None =>
        /\ lsBlob # None
        /\ JSONParse(Get(lsBlob)) = Get(portfolioData)
        /\ lsActive = Get(portfolioData).activeAccountId

\* C10 witness: an account was added and made active, and is the remembered one.
C10_Witness ==
    /\ portfolioData # None /\ tasks = {} /\ ops >= 1
    /\ Get(portfolioData).activeAccountId = FirstNewAccId
    /\ lsActive = FirstNewAccId
    /\ Len(Get(portfolioData).accounts) = 3

\* C11: the cached blob is keyed by owner: a snapshot mirrored in one
\* owner's session never overwrites a blob cached in another owner's session,
\* and the blob found when an owner's session starts (no snapshot yet) was
\* never cached in another owner's session.
C11_BlobKeyedByOwner ==
    /\ [][(lsBlob' # lsBlob /\ lsBlob # None) => blobOwner = Some(user')]_vars
    /\ []((portfolioData = None /\ lsBlob # None) => blobOwner = Some(user))

\* the cached text is a well-formed snapshot: it parses, accounts is an array,
\* transactions is a map and activeAccountId is a non-null id
WellFormedCache(c) ==
    /\ c.parses /\ ~c.isNull
    /\ c.accounts = "array"
    /\ c.transactions = "object"
    /\ c.activeAccountId = "string"

\* C12: once loadOfflineData has run, a snapshot has been adopted exactly if
\* a cached blob exists and is well-formed; every other cached value leaves
\* the snapshot null.
C12_OnlyWellFormedAdopted ==
    ~isLoading =>
        (portfolioData # None <=> (lsBlob # None /\ WellFormedCache(Get(lsBlob))))

\* an invocation of a handler that mutates the ledger or the accounts
MutatingTask(t) ==
    t.kind \in {"addTx", "delTx", "updTx", "cash", "addAcc", "renAcc", "delAcc"}

\* what the mutating handlers report when a remote call of theirs fails
HandlerFailures ==
    {"cashFail", "rowFail", "updFail", "editFail", "addAccFail", "renFail", "delAccFail"}

\* C13: a mutating handler changes nothing in the snapshot while it still has
\* a remote call to wait for, and the step in which a remote call of its
\* fails ends it with the snapshot (accounts, cash, transaction lists, active
\* id) and its cached copy as they were.
C13_FailureKeepsSnapshot ==
    [][\A t \in tasks : (MutatingTask(t) /\ t \notin tasks') =>
          /\ Succ(t) # {} => portfolioData' = portfolioData
          /\ (Succ(t) = {} /\ t.kind \in {"addTx", "delTx"} /\ t.pc = "cash") =>
                portfolioData' = portfolioData
          /\ (Succ(t) = {} /\ failed' \in HandlerFailures /\ failed' # failed) =>
                portfolioData' = portfolioData /\ lsBlob' = lsBlob]_vars

\* C13 witness: a handler ended at a failed row write after its cash write:
\* the remote cash has moved, the snapshot has not.
C13_Witness ==
    /\ failed = "rowFail" /\ tasks = {} /\ portfolioData # None
    /\ Len(rAccounts) = Len(Get(portfolioData).accounts)
    /\ \E i \in 1..Len(rAccounts) :
          /\ rAccounts[i].id = Get(portfolioData).accounts[i].id
          /\ rAccounts[i].cash # Get(portfolioData).accounts[i].cash

\* C14: a confirmed delete writes its cash delta to, and removes the row from
\* the ledger of, the account that owns the transaction: the account the
\* handler works on is the one whose id is the transaction's account id, also
\* when the active account was switched after the transaction was selected.
C14_DeleteOnOwningAccount ==
    \A t \in tasks :
        t.kind = "delTx" => Get(t.acc).id = Get(t.tx).account_id

\* the snapshot's transactions with this id, over all its lists
LocalCopies(pd, id) ==
    {x \in UNION {Range(pd.transactions[k]) : k \in DOMAIN pd.transactions} : x.id = id}

\* the remote rows with this id, as transactions
RemoteCopies(rows, id) == {RowToTx(rows[i]) : i \in {j \in 1..Len(rows) : rows[j].id = id}}

\* a list of rows or transactions after a step, against what it was: the
\* entry with this id keeps its id, account, kind and ticker, every other
\* entry is as it was
OnlyEdited(before, after, id) ==
    /\ Len(after) = Len(before)
    /\ \A i \in 1..Len(before) :
          IF before[i].id = id
          THEN /\ after[i].id = id
               /\ after[i].account_id = before[i].account_id
               /\ after[i].type = before[i].type
               /\ after[i].ticker = before[i].ticker
          ELSE after[i] = before[i]

\* C15: the step that ends an update writes no cash, remotely or in the
\* snapshot; of the updated transaction it leaves the kind and the ticker as
\* they were; it leaves every other transaction as it was, in the remote
\* table and in every list of the snapshot; and the remote row and the
\* snapshot's copy, equal before, are equal after.
C15_UpdateFrame ==
    [][\A t \in tasks : (t.kind = "updTx" /\ t \notin tasks') =>
          LET id == Get(t.tx).id
              before == portfolioData[1]
              after == portfolioData'[1]
          IN  /\ rAccounts' = rAccounts
              /\ after.accounts = before.accounts
              /\ OnlyEdited(rTxs, rTxs', id)
              /\ DOMAIN after.transactions = DOMAIN before.transactions
              /\ \A k \in DOMAIN before.transactions :
                    OnlyEdited(before.transactions[k], after.transactions[k], id)
              /\ (LocalCopies(before, id) = RemoteCopies(rTxs, id)) =>
                    (LocalCopies(after, id) = RemoteCopies(rTxs', id))]_vars

\* a confirmed account deletion receives its answer and does not report a failure
DeleteAccountSucceeds(t) ==
    t.kind = "delAcc" /\ tasks' = tasks \ {t} /\ failed' # "delAccFail"

\* C16: after a successful deletion of account A the snapshot has neither A
\* nor an entry of transactions for A, the remote store has no transaction of
\* A; if A was the active account the active id is now that of another
\* account, which exists in the snapshot and in the remote store; if A was
\* not active the active id is as it was.
C16_DeleteAccountCascades ==
    [][\A t \in tasks : DeleteAccountSucceeds(t) =>
          LET A == Get(t.acc).id
              before == portfolioData[1]
              after == portfolioData'[1]
          IN  /\ A \notin Ids(after.accounts)
              /\ A \notin DOMAIN after.transactions
              /\ \A i \in 1..Len(rTxs') : rTxs'[i].account_id # A
              /\ IF before.activeAccountId = A
                 THEN /\ after.activeAccountId # A
                      /\ after.activeAccountId \in Ids(after.accounts)
                      /\ after.activeAccountId \in Ids(rAccounts')
                 ELSE after.activeAccountId = before.activeAccountId]_vars

\* an invocation of handleConfirmImport: at its inserts, or at the reload
ImportTask(t) == t.kind = "import" \/ (t.kind = "load" /\ t.n # 0)

\* C17: an import writes nothing before it is confirmed.  The step that
\* shows a summary, the step that dismisses one and the step that reports a
\* rejected file send no remote call (no invocation starts) and leave the
\* remote tables as they are; an import is only ever started from a summary
\* on display, for the data of that summary, and starting it writes nothing.
C17_NoWriteBeforeConfirm ==
    [][/\ (importConfirmation' # importConfirmation /\ importConfirmation' # None) =>
             (tasks' = tasks /\ UNCHANGED remoteVars)
       /\ (importConfirmation # None /\ importConfirmation' = None /\ ops' = ops) =>
             (tasks' = tasks /\ UNCHANGED remoteVars)
       /\ (failed' = "importFile" /\ failed # "importFile") =>
             (tasks' = tasks /\ UNCHANGED remoteVars
                /\ importConfirmation' = importConfirmation)
       /\ \A u \in tasks' : (ImportTask(u) /\ ~\E t \in tasks : t.n = u.n) =>
             /\ importConfirmation # None
             /\ u.data = Some(Get(importConfirmation).data)
             /\ importConfirmation' = None
             /\ UNCHANGED remoteVars]_vars

\* C17 witness: a summary is on display after the first load and nothing has
\* been written.
C17_Witness ==
    /\ Ready /\ importConfirmation # None /\ ops = 0 /\ tasks = {}
    /\ nextTxId = FirstNewTxId
    /\ Get(importConfirmation).data.isArray

\* the row reads as the transaction of the payload, under this account
RowCarries(r, tx, account_id) ==
    /\ r.account_id = account_id
    /\ r.type = tx.type /\ r.ticker = tx.ticker
    /\ r.shares = tx.shares /\ r.price = tx.price
    /\ r.transaction_date = tx.date

\* C18: the import of a bare list works on the account that is active when
\* it is confirmed; its insert adds to the remote table one row per
\* transaction of the list, in order, each under that account's id and with
\* an id the table did not hold, changes no other row and no account.
C18_ListIntoActiveAccount ==
    [][/\ \A u \in tasks' : (ImportTask(u) /\ Get(u.data).isArray
                                /\ ~\E t \in tasks : t.n = u.n) =>
             /\ u.acc = ActiveAccountOf(portfolioData[1])
             /\ u.acc # None => u.pc = "impList"
       /\ \A t \in tasks : (t.kind = "import" /\ t.pc = "impList" /\ t \notin tasks'
                               /\ Succ(t) # {}) =>
             LET list == Get(t.data).list
                 n == Len(rTxs)
             IN  /\ rAccounts' = rAccounts
                 /\ Len(rTxs') = n + Len(list)
                 /\ SubSeq(rTxs', 1, n) = rTxs
                 /\ \A i \in 1..Len(list) :
                       /\ RowCarries(rTxs'[n + i], list[i], Get(t.acc).id)
                       /\ rTxs'[n + i].id \notin Ids(rTxs)
                       /\ \A j \in 1..Len(list) : j # i => rTxs'[n + j].id # rTxs'[n + i].id]_vars

\* C18 witness: a list whose transaction carries account id 1 in the file was
\* imported while account 2 was active, and reloaded.
C18_Witness ==
    /\ Ready /\ tasks = {} /\ ops = 1 /\ failed = NoFailure
    /\ Len(rAccounts) = 2
    /\ \E i \in 1..Len(rTxs) :
          /\ RowCarries(rTxs[i], ImportedTx, 2)
          /\ RowToTx(rTxs[i]) \in Range(Get(portfolioData).transactions[2])

\* C19: an account-carrying import goes through every account of the payload
\* once, in order, each with the transactions it has in the payload.  For
\* each it creates one remote account with that name and cash and an id
\* that no account had, and then inserts one row per transaction of that
\* account, each under the id just assigned, whatever account id the
\* transaction carries in the payload; it changes no other row and no other
\* account.
C19_AccountsRecreated ==
    [][/\ \A u \in tasks' : (ImportTask(u) /\ ~Get(u.data).isArray
                                /\ ~\E t \in tasks : t.n = u.n) =>
             LET data == Get(u.data)
             IN  IF data.accounts # None
                 THEN /\ Len(u.accs) = Len(Get(data.accounts))
                      /\ \A i \in 1..Len(u.accs) :
                            LET acc == Get(data.accounts)[i]
                            IN  /\ u.accs[i].name = acc.name
                                /\ u.accs[i].cash = acc.cash
                                /\ u.accs[i].txs =
                                      (IF acc.id \in DOMAIN data.txmap
                                       THEN data.txmap[acc.id] ELSE <<>>)
                 ELSE /\ Len(u.accs) = 1
                      /\ u.accs[1].name = Get(data.account).name
                      /\ u.accs[1].cash = Get(data.account).cash
                      /\ u.accs[1].txs = data.txlist
       /\ \A t \in tasks : (t.kind = "import" /\ t.pc = "impAcc" /\ t \notin tasks'
                               /\ Succ(t) # {}) =>
             LET n == Len(rAccounts)
                 acc == Head(t.accs)
             IN  /\ rTxs' = rTxs
                 /\ Len(rAccounts') = n + 1
                 /\ SubSeq(rAccounts', 1, n) = rAccounts
                 /\ rAccounts'[n + 1].name = acc.name
                 /\ rAccounts'[n + 1].cash = acc.cash
                 /\ rAccounts'[n + 1].id \notin Ids(rAccounts)
                 /\ \A u \in Succ(t) :
                       IF acc.txs # <<>>
                       THEN u.pc = "impTxs" /\ u.num = rAccounts'[n + 1].id
                                            /\ u.accs = t.accs
                       ELSE u.accs = Tail(t.accs)
       /\ \A t \in tasks : (t.kind = "import" /\ t.pc = "impTxs" /\ t \notin tasks'
                               /\ Succ(t) # {}) =>
             LET n == Len(rTxs)
                 txs == Head(t.accs).txs
             IN  /\ rAccounts' = rAccounts
                 /\ Len(rTxs') = n + Len(txs)
                 /\ SubSeq(rTxs', 1, n) = rTxs
                 /\ \A i \in 1..Len(txs) :
                       /\ RowCarries(rTxs'[n + i], txs[i], t.num)
                       /\ rTxs'[n + i].id \notin Ids(rTxs)
                 /\ \A u \in Succ(t) : u.accs = Tail(t.accs)]_vars

\* C19 witness: the full backup was imported and reloaded: two accounts were
\* added to the two of the store, and the transaction the file has under
\* account id 1 is under the id assigned to the first of them.
C19_Witness ==
    /\ Ready /\ tasks = {} /\ ops = 1 /\ failed = NoFailure
    /\ Len(rAccounts) = 4
    /\ rAccounts[3].name = "Main" /\ rAccounts[4].name = "Old"
    /\ \E i \in 1..Len(rTxs) : RowCarries(rTxs[i], ImportedTx, rAccounts[3].id)
    /\ ~\E i \in 1..Len(rTxs) : RowCarries(rTxs[i], ImportedTx, 1)

\* a local transaction that carries the fields of a payload transaction
\* under this account id, with the id of a remote row
Imported(x, tx, account_id) ==
    /\ x.account_id = account_id /\ x.type = tx.type /\ x.ticker = tx.ticker
    /\ x.shares = tx.shares /\ x.price = tx.price /\ x.date = tx.date
    /\ \E i \in 1..Len(rTxs) : RowToTx(rTxs[i]) = x

\* C20: while an import is at its inserts or at its reload, the snapshot
\* changes in one step only, the one where the reload publishes what it
\* fetched.  After that step the dashboard is READY and the snapshot holds,
\* for each account of the payload, the remote account created for it (an
\* id the snapshot did not have, the payload's name and cash) with one
\* transaction per transaction of that account; for a bare list it holds
\* one transaction per element under the account the import went into.  Each
\* of these transactions has the id of its remote row.
C20_ReloadOnly ==
    [][/\ (portfolioData' # portfolioData /\ \E t \in tasks : ImportTask(t)) =>
             \E t \in tasks : ImportTask(t) /\ LoadPublishes(t)
       /\ \A t \in tasks : (ImportTask(t) /\ LoadPublishes(t)) =>
             LET data == Get(t.data)
                 work == ImportWork(data)
                 k == Len(work)
                 n == Len(rAccounts)
                 after == Get(portfolioData')
             IN  /\ Ready'
                 /\ \A i \in 1..k :
                       LET a == rAccounts[n - k + i]
                       IN  /\ a \in Range(after.accounts)
                           /\ a.name = work[i].name /\ a.cash = work[i].cash
                           /\ a.id \notin Ids(Get(portfolioData).accounts)
                           /\ a.id \in DOMAIN after.transactions
                           /\ \A j \in 1..Len(work[i].txs) :
                                 \E x \in Range(after.transactions[a.id]) :
                                    Imported(x, work[i].txs[j], a.id)
                 /\ data.isArray =>
                       \A j \in 1..Len(data.list) :
                          /\ Get(t.acc).id \in DOMAIN after.transactions
                          /\ \E x \in Range(after.transactions[Get(t.acc).id]) :
                                Imported(x, data.list[j], Get(t.acc).id)]_vars

\* C20 witness: the single-account file was imported and reloaded: the
\* snapshot has the account "Imp" under the id the store gave it, with the
\* file's transaction.
C20_Witness ==
    /\ Ready /\ tasks = {} /\ ops = 1 /\ failed = NoFailure
    /\ LET pd == Get(portfolioData)
           n == Len(pd.accounts)
       IN  /\ n = Len(rAccounts)
           /\ pd.accounts[n].name = "Imp"
           /\ pd.accounts[n].id = nextAccId - 1
           /\ \E x \in Range(pd.transactions[pd.accounts[n].id]) :
                 Imported(x, ImportedTx, pd.accounts[n].id)

\* C21: when the insert of an imported account's transactions fails, the
\* import ends in that step: the remote tables stay as they are, so the
\* account just created stays, with no transaction under its id; no call of
\* the import is left in flight, so the accounts that follow in the payload
\* are not created; the failure is reported; the session is not loading; the
\* snapshot is as it was.
C21_OrphanAccountKept ==
    [][\A t \in tasks : (t.kind = "import" /\ t.pc = "impTxs" /\ Succ(t) = {}) =>
          /\ rAccounts' = rAccounts /\ rTxs' = rTxs
          /\ \E i \in 1..Len(rAccounts') :
                /\ rAccounts'[i].id = t.num
                /\ rAccounts'[i].name = Head(t.accs).name
          /\ ~\E i \in 1..Len(rTxs') : rTxs'[i].account_id = t.num
          /\ ~\E u \in tasks' : ImportTask(u)
          /\ failed' = "impTxs"
          /\ ~isLoading'
          /\ portfolioData' = portfolioData]_vars

\* C21 witness: the import of the full backup failed at the transactions of
\* its first account: "Main" was created and has no transaction, "Old" was
\* not created, the dashboard is rendered.
C21_Witness ==
    /\ failed = "impTxs" /\ tasks = {} /\ Ready /\ ops = 1
    /\ Len(rAccounts) = 3 /\ rAccounts[3].name = "Main"
    /\ rAccounts[3].id \notin Ids(Get(portfolioData).accounts)
    /\ ~\E i \in 1..Len(rTxs) : rTxs[i].account_id = rAccounts[3].id

\* how many rows carry this transaction under this account
Copies(rows, tx, account_id) ==
    Cardinality({i \in 1..Len(rows) : RowCarries(rows[i], tx, account_id)})

\* how many elements of a payload list read as this transaction
Occurrences(txs, tx) ==
    Cardinality({i \in 1..Len(txs) :
                    /\ txs[i].type = tx.type /\ txs[i].ticker = tx.ticker
                    /\ txs[i].shares = tx.shares /\ txs[i].price = tx.price
                    /\ txs[i].date = tx.date})

\* how many accounts have this name and cash
Namesakes(accounts, acc) ==
    Cardinality({i \in 1..Len(accounts) :
                    accounts[i].name = acc.name /\ accounts[i].cash = acc.cash})

\* C22: an import adds its rows and accounts whatever the store already
\* holds.  A successful insert of a list raises, for each of its
\* transactions, the number of rows that carry it under the target account
\* by the number of times the list has it, also when such rows exist from an
\* earlier import; a successful insert of a payload account raises the
\* number of accounts with its name and cash by one.
C22_NoDeduplication ==
    [][/\ \A t \in tasks : (t.kind = "import" /\ t.pc = "impList" /\ t \notin tasks'
                               /\ Succ(t) # {}) =>
             LET list == Get(t.data).list
             IN  \A j \in 1..Len(list) :
                    Copies(rTxs', list[j], Get(t.acc).id) =
                       Copies(rTxs, list[j], Get(t.acc).id) + Occurrences(list, list[j])
       /\ \A t \in tasks : (t.kind = "import" /\ t.pc = "impTxs" /\ t \notin tasks'
                               /\ Succ(t) # {}) =>
             LET txs == Head(t.accs).txs
             IN  /\ Len(rTxs') = Len(rTxs) + Len(txs)
                 /\ \A j \in 1..Len(txs) :
                       Copies(rTxs', txs[j], t.num) =
                          Copies(rTxs, txs[j], t.num) + Occurrences(txs, txs[j])
       /\ \A t \in tasks : (t.kind = "import" /\ t.pc = "impAcc" /\ t \notin tasks'
                               /\ Succ(t) # {}) =>
             Namesakes(rAccounts', Head(t.accs)) = Namesakes(rAccounts, Head(t.accs)) + 1]_vars

\* C22 witness: the same list was imported twice into the same account: its
\* transaction is there twice, remotely and in the reloaded snapshot.
C22_Witness ==
    /\ Ready /\ tasks = {} /\ ops = 2 /\ failed = NoFailure
    /\ \E a \in Ids(rAccounts) :
          /\ Copies(rTxs, ImportedTx, a) = 2
          /\ Cardinality({i \in 1..Len(Get(portfolioData).transactions[a]) :
                Imported(Get(portfolioData).transactions[a][i], ImportedTx, a)}) = 2

\* the transactions a full snapshot has for its account with this id
SnapshotTxs(data, id) == IF id \in DOMAIN data.txmap THEN data.txmap[id] ELSE <<>>

\* an import of a full snapshot publishes its reload
FullImportPublishes(t) ==
    ImportTask(t) /\ LoadPublishes(t) /\ Get(t.data).accounts # None

\* C23 as stated: the full backup exported right after the import of a full
\* snapshot S and its reload has as many accounts as S, with the names and
\* cash of S in order and as many transactions under each as S has.
C23_RoundTripExact ==
    [][\A t \in tasks : FullImportPublishes(t) =>
          LET S == Get(t.data)
              exported == Get(HandleExportAll')
          IN  /\ Len(exported.accounts) = Len(Get(S.accounts))
              /\ \A i \in 1..Len(Get(S.accounts)) :
                    i <= Len(exported.accounts) =>
                       /\ exported.accounts[i].name = Get(S.accounts)[i].name
                       /\ exported.accounts[i].cash = Get(S.accounts)[i].cash
                       /\ Len(exported.transactions[exported.accounts[i].id]) =
                             Len(SnapshotTxs(S, Get(S.accounts)[i].id))]_vars

\* C23, amended: the full backup exported right after the import of a full
\* snapshot S and its reload keeps every account the snapshot had before the
\* import and ends with one account per account of S, in the order of S,
\* each with the name and cash of its account of S, an id the snapshot did
\* not have, and as many transactions as S has for that account.
C23_RoundTripAdded ==
    [][\A t \in tasks : FullImportPublishes(t) =>
          LET S == Get(t.data)
              k == Len(Get(S.accounts))
              exported == Get(HandleExportAll')
              n == Len(exported.accounts)
          IN  /\ HandleExportAll' # None
              /\ n >= k + Len(Get(portfolioData).accounts)
              /\ \A a \in Range(Get(portfolioData).accounts) :
                    \E i \in 1..(n - k) : exported.accounts[i].id = a.id
              /\ \A i \in 1..k :
                    LET a == exported.accounts[n - k + i]
                    IN  /\ a.name = Get(S.accounts)[i].name
                        /\ a.cash = Get(S.accounts)[i].cash
                        /\ a.id \notin Ids(Get(portfolioData).accounts)
                        /\ Len(exported.transactions[a.id]) =
                              Len(SnapshotTxs(S, Get(S.accounts)[i].id))]_vars

\* C23 witness: the full backup (Main with one transaction, Old with none)
\* was imported into a store of two accounts and reloaded; the export has
\* four accounts, the last two the ones of the backup.
C23_Witness ==
    /\ Ready /\ tasks = {} /\ ops = 1 /\ failed = NoFailure
    /\ LET exported == Get(HandleExportAll)
       IN  /\ Len(exported.accounts) = 4
           /\ exported.accounts[3].name = "Main" /\ exported.accounts[4].name = "Old"
           /\ Len(exported.transactions[exported.accounts[3].id]) = 1
           /\ Len(exported.transactions[exported.accounts[4].id]) = 0

\* the reducer's entry for a ticker after the first n transactions of the
\* active list (no entry: nothing held, no cost)
Held(n, ticker) ==
    LET pos == CalculatePositions(SubSeq(ActiveTransactions, 1, n))
    IN  IF ticker \in DOMAIN pos THEN pos[ticker] ELSE [shares |-> 0, cost |-> Whole(0)]

RECURSIVE SumShares(_, _)
\* the shares of a ticker's transactions, summed in the order of the list
SumShares(transactions, ticker) ==
    IF transactions = <<>> THEN 0
    ELSE SumShares(Tail(transactions), ticker)
            + (IF Head(transactions).ticker = ticker THEN Head(transactions).shares ELSE 0)

RECURSIVE SumPaid(_, _)
\* shares x price of a ticker's transactions, summed
SumPaid(transactions, ticker) ==
    IF transactions = <<>> THEN 0
    ELSE SumPaid(Tail(transactions), ticker)
            + (IF Head(transactions).ticker = ticker
               THEN Head(transactions).shares * Head(transactions).price ELSE 0)

\* C25: when the active list holds BUYs only, the Position built for each of
\* its tickers has the sum of the ticker's shares as shares and (sum of
\* shares x price) / (sum of shares) as average cost, and just these are the
\* values of the positions that are published for the list.
C25_BuyOnlyAverage ==
    (\A n \in 1..Len(ActiveTransactions) : ActiveTransactions[n].type = "BUY") =>
       /\ \A ticker \in Range(KeysOf(ActiveTransactions)) :
             LET p == Position(ticker, CalculatePositions(ActiveTransactions)[ticker])
             IN  /\ p.shares = SumShares(ActiveTransactions, ticker)
                 /\ p.averageCost = Frac(SumPaid(ActiveTransactions, ticker),
                                         SumShares(ActiveTransactions, ticker))
       /\ \A i \in 1..Len(positions) :
             /\ positions[i].shares = SumShares(ActiveTransactions, positions[i].ticker)
             /\ positions[i].averageCost =
                   Frac(SumPaid(ActiveTransactions, positions[i].ticker),
                        SumShares(ActiveTransactions, positions[i].ticker))

\* C25 witness: T1 was bought three times, 2 at 1, 1 at 2 and 2 at 2; the
\* published position has 5 shares at an average cost of 8/5.
C25_Witness ==
    /\ \A n \in 1..Len(ActiveTransactions) : ActiveTransactions[n].type = "BUY"
    /\ Len(ActiveTransactions) = 3
    /\ positions = <<[ticker |-> "T1", shares |-> 5, averageCost |-> [n |-> 8, d |-> 5]]>>
    /\ ~isMarketDataLoading

\* a list without its DEPOSIT and WITHDRAWAL rows
TradesOf(transactions) ==
    SelectSeq(transactions, LAMBDA tx : tx.type \notin {"DEPOSIT", "WITHDRAWAL"})

\* C26: the reducer gives for the active list what it gives for the list
\* without its DEPOSIT and WITHDRAWAL rows: the same tickers, and for each
\* the same shares and cost.
C26_CashRowsIgnored ==
    CalculatePositions(ActiveTransactions) = CalculatePositions(TradesOf(ActiveTransactions))

\* C27: the list the effects hand to the reducer, activeTransactions, is in
\* the order of its dates: no transaction stands before one of an earlier
\* date.
C27_Chronological ==
    \A i, j \in 1..Len(ActiveTransactions) :
       i < j => ActiveTransactions[i].date <= ActiveTransactions[j].date

\* the tickers of the active list whose running shares exceed epsilon
OverEpsilon ==
    {ticker \in DOMAIN CalculatePositions(ActiveTransactions) :
        CalculatePositions(ActiveTransactions)[ticker].shares > Epsilon}

\* C28: the tickers a fan-out asks quotes or histories for, the tickers of
\* the positions published from the quotes and the tickers whose prices are
\* summed in the historical value are the tickers whose running shares
\* exceed epsilon, all of them and no other.
C28_ValuedIffOverEpsilon ==
    /\ \A f \in fanouts : Range(f.tickers) = OverEpsilon
    /\ (posDeps = PositionsDeps /\ ~isMarketDataLoading) =>
          {positions[i].ticker : i \in 1..Len(positions)} = OverEpsilon
    /\ (histDeps = HistoryDeps /\ ~isHistoryLoading) =>
          {historicalPortfolioValue[i].ticker : i \in 1..Len(historicalPortfolioValue)}
             = OverEpsilon

PositionsOfAccount(id) ==
    LET transactions == Get(portfolioData).transactions[id]
    IN  NewPositions(CalculatePositions(transactions), QuoteTickers(transactions))

\* C30: no step cancels a fan-out: one that is awaited stays awaited until
\* the step in which its responses are applied, and that step publishes what
\* the fan-out computed (positions from its quotes, the historical value from
\* its histories) whichever account is active by then and whichever fan-out
\* was applied before.
C30_NoCancellation ==
    [][\A f \in fanouts : f \notin fanouts' =>
          /\ portfolioData' = portfolioData
          /\ f.kind = "quotes" => positions' = NewPositions(f.posMap, f.tickers)
          /\ f.kind = "history" => historicalPortfolioValue' = Valued(f.posMap, f.tickers)]_vars

\* C30 witness: nothing is awaited, no effect is due, IRA is active and the
\* positions published are those of Main: Main's fan-out was answered after
\* the one started for IRA by the switch.
C30_Witness ==
    /\ fanouts = {} /\ ~EffectsPending /\ ~isMarketDataLoading
    /\ Get(portfolioData).activeAccountId = 2
    /\ positions = PositionsOfAccount(1)
    /\ positions # PositionsOfAccount(2)


\* C31: fallback data always surfaces as the degraded-data indicator and only
\* as that: once a valuation step has published the empty position list, for
\* which no quote was used, the indicator is not raised.
C31_NoIndicatorForEmptyList ==
    (positions = <<>> /\ ~EffectsPending) => ~isApiError


\* C32: no atomicity across the cash write and the row write of an append or
\* delete: the step that ends such a handler at its row write comes after its
\* cash write succeeded and writes no cash (nothing compensates), and when it
\* reports the failure of the row write it leaves the rows, the snapshot and
\* its cached copy as they were, so the remote cash has moved without the row
\* change.
C32_NonAtomicGap ==
    [][\A t \in tasks :
          (LedgerTask(t) /\ t.pc = "row" /\ t \notin tasks' /\ Succ(t) = {}) =>
             /\ t.cashOk
             /\ rAccounts' = rAccounts
             /\ (failed' = "rowFail" /\ failed' # failed) =>
                   /\ rTxs' = rTxs
                   /\ portfolioData' = portfolioData
                   /\ lsBlob' = lsBlob]_vars

\* C32 witness: the only handler of the session, a delete, ended at its failed
\* row delete: the remote cash carries the reversal, the row is still in the
\* remote table and the snapshot has the old cash and the row.
C32_Witness ==
    /\ failed = "rowFail" /\ tasks = {} /\ ops = 1
    /\ deletingTransaction # None /\ portfolioData # None
    /\ LET tx == Get(deletingTransaction)
           pd == Get(portfolioData)
       IN  /\ tx.id \in Ids(rTxs)
           /\ \E i \in 1..Len(rAccounts) :
                 /\ rAccounts[i].id = tx.account_id
                 /\ pd.accounts[i].id = tx.account_id
                 /\ rAccounts[i].cash = DeleteNewCash(pd.accounts[i].cash, tx)
                 /\ rAccounts[i].cash # pd.accounts[i].cash


\* the snapshot pd has the accounts (id, name, cash) of the remote accounts
\* table and, under each account id, the transactions of the remote rows of
\* that account; the order of the lists is left open
Mirrors(pd) ==
    /\ Range(pd.accounts) = Range(rAccounts)
    /\ Len(pd.accounts) = Len(rAccounts)
    /\ DOMAIN pd.transactions = Ids(rAccounts)
    /\ \A id \in Ids(rAccounts) :
          /\ Range(pd.transactions[id]) = {RowToTx(r) : r \in Range(RowsOf(id))}
          /\ Len(pd.transactions[id]) = Len(RowsOf(id))

\* C33: whenever the session is ready, no handler or load is in flight and no
\* remote call has failed since the last load, the snapshot mirrors the
\* remote store.
C33_MirrorsAtQuiescence ==
    (Ready /\ tasks = {} /\ failed = NoFailure) => Mirrors(Get(portfolioData))


\* the accounts the loads of this session have inserted
DefaultsCreated == {i \in 1..Len(rAccounts) : rAccounts[i].id >= FirstNewAccId}

\* C34: however many loads are started for an owner, together they create at
\* most one default account, and once they have all succeeded an owner who
\* had no account has exactly one.
C34_OneDefaultAccount ==
    /\ Cardinality(DefaultsCreated) <= 1
    /\ (effectRan /\ tasks = {} /\ failed = NoFailure) => Len(rAccounts) >= 1


\* the sum of the cash deltas the appends of these rows applied
RECURSIVE AppliedDelta(_)
AppliedDelta(rows) ==
    IF rows = <<>> THEN 0 ELSE origDelta[Head(rows).id] + AppliedDelta(Tail(rows))

\* C35: no cash update is lost: once the appends started in a session, also
\* those in flight together, have all succeeded, the cash of every account,
\* in the remote table and in the snapshot, is the cash before its ledger
\* plus the delta of every row appended to it.
C35_NoLostCashUpdate ==
    (Ready /\ tasks = {} /\ failed = NoFailure) =>
        \A i \in 1..Len(rAccounts) :
           LET id == rAccounts[i].id
               cash == baseCash[id] + AppliedDelta(RowsOf(id))
           IN  /\ rAccounts[i].cash = cash
               /\ \A a \in Range(Get(portfolioData).accounts) :
                     a.id = id => a.cash = cash


\* C36: the shape announced is the shape committed: when an import is
\* confirmed, the work handleConfirmImport takes up is that of the summary on
\* display: a bare list goes to the list insert; a single account is one
\* account, with the name and the number of transactions announced; a full
\* backup is as many accounts as announced.
C36_AnnouncedShapeCommitted ==
    [][(importConfirmation # None /\ importConfirmation' = None /\ ops' = ops + 1) =>
          LET conf == Get(importConfirmation)
          IN  \A u \in tasks' \ tasks :
                 /\ conf.message[1] = "list" => u.pc = "impList"
                 /\ conf.message[1] = "account" =>
                       /\ Len(u.accs) = 1
                       /\ u.accs[1].name = Get(conf.data.account).name
                       /\ Len(u.accs[1].txs) = conf.message[3]
                 /\ conf.message[1] = "full" =>
                       /\ Len(u.accs) = conf.message[2]
                       /\ u.pc \in {"impAcc", "accounts"}]_vars


\* the prices of the BUY rows of ticker in a list
BuyPrices(transactions, ticker) ==
    {transactions[i].price : i \in {j \in 1..Len(transactions) :
        transactions[j].type = "BUY" /\ transactions[j].ticker = ticker}}

\* C37: the average cost of every published position lies between the lowest
\* and the highest BUY price of its ticker in the active list.
C37_AverageWithinBuyPrices ==
    \A i \in 1..Len(positions) :
       LET avg == positions[i].averageCost
           prices == BuyPrices(ActiveTransactions, positions[i].ticker)
       IN  /\ prices # {}
           /\ \E lo \in prices : lo * avg.d <= avg.n
           /\ \E hi \in prices : avg.n <= hi * avg.d

=============================================================================
